---- MODULE Spec2Model ----
(***************************************************************************)
(* Structured-ASIC back-end flow: greedy placer (placer.py), simulated     *)
(* annealing refiner (optimized.py), H-tree clock tree synthesis           *)
(* (cts_htree.py) and power-down ECO (power_down.py), over the logical DB  *)
(* and netlist graph built by parse_design.py.                             *)
(*                                                                         *)
(* Python dicts are insertion ordered: a dict is modelled as a function    *)
(* together with the sequence of its keys where the code iterates it.      *)
(* Coordinates are integers; every mean (barycenter, centroid) is kept as  *)
(* a sum and a count and compared after cross-multiplication, so that no   *)
(* rounding enters the model.                                              *)
(***************************************************************************)
EXTENDS Integers, Sequences, FiniteSets, TLC

VARIABLES
    pc,                 \* position of the flow
    sites,              \* fabric_db["fabric"]["cells_by_tile"], tile-major: slot dicts
    pins,               \* fabric_db["fabric"]["pin_placement"]["pins"]
    logical_db,         \* cells, nets, ports, cells_by_type, meta
    netlist_graph,      \* networkx graph: nodes, edges with net_id / nets attributes
    placement,          \* dict built by initial_placement
    seed_cells,         \* initial_placement: seed cells still to place
    remaining_cells,    \* initial_placement: cells of the grow stage
    fabric_to_logical_map, \* placer's module-level site -> instance dict
    design_json,        \* modules[top] of the Yosys JSON: ports and cells
    sa,                 \* locals of simulated_annealing
    rng,                \* state of the process-global generator of module random
    runs,               \* results returned by the calls of simulated_annealing
    cts,                \* fields of the HTreeCTS object and the placement it read
    eco,                \* locals of run_power_down_eco
    config,             \* the SAConfig object handed to simulated_annealing
    viz,                \* visualization/pipeline.py: arguments, files, results, exit code
    def_out             \* make_def.py: the pins, die area and components written

vars == <<pc, sites, pins, logical_db, netlist_graph, placement, seed_cells,
          remaining_cells, fabric_to_logical_map, design_json, sa, rng, runs, cts, eco,
          config, viz, def_out>>

-----------------------------------------------------------------------------
(* Generic helpers *)

Range(s) == {s[i] : i \in 1..Len(s)}

Abs(n) == IF n < 0 THEN -n ELSE n

Min2(a, b) == IF a <= b THEN a ELSE b

RECURSIVE SumSeq(_)
SumSeq(s) == IF s = <<>> THEN 0 ELSE Head(s) + SumSeq(Tail(s))

RECURSIVE FilterSeq(_, _)
\* the subsequence of s whose elements are in set S (a list comprehension)
FilterSeq(s, S) ==
    IF s = <<>> THEN <<>>
    ELSE IF Head(s) \in S THEN <<Head(s)>> \o FilterSeq(Tail(s), S)
         ELSE FilterSeq(Tail(s), S)

\* marker for a slot dict without the key "placed"
NoCell == "<none>"

\* a dict with no key
EmptyDict == [k \in {} |-> 0]

Put(d, k, v) == [x \in (DOMAIN d) \cup {k} |-> IF x = k THEN v ELSE d[x]]

Del(d, k) == [x \in (DOMAIN d) \ {k} |-> d[x]]

-----------------------------------------------------------------------------
(* Cell types and the substring tests the code applies to their names *)

NAND == "sky130_fd_sc_hd__nand2_2"
DFF  == "sky130_fd_sc_hd__dfbbp_1"
BUF  == "sky130_fd_sc_hd__clkbuf_4"
INV  == "sky130_fd_sc_hd__clkinv_2"
CONB == "sky130_fd_sc_hd__conb_1"
TAP  == "sky130_fd_sc_hd__tapvpwrvgnd_1"
OAI  == "sky130_fd_sc_hd__o21ai_1"

\* for each type name, the substrings it contains among those the code tests for
Substrings ==
    [t \in {NAND, DFF, BUF, INV, CONB, TAP, OAI} |->
        CASE t = NAND -> {"nand2", "and2", "a"}
          [] t = DFF  -> {"dfbbp"}
          [] t = BUF  -> {"buf", "clkbuf"}
          [] t = INV  -> {"inv"}
          [] t = CONB -> {"conb", "conb_1", "o"}
          [] t = TAP  -> {"tap", "a"}
          [] t = OAI  -> {"o", "a"}]

\* pattern in cell_type.lower()
has(t, pattern) == t \in DOMAIN Substrings /\ pattern \in Substrings[t]

\* 'dfbbp' in cell_type.lower() or 'dff' in cell_type.lower()
is_dff(t) == has(t, "dfbbp") \/ has(t, "dff")

\* 'buf' in cell_type
is_buffer(t) == has(t, "buf")

\* 'inv' in cell_type
is_inverter(t) == has(t, "inv")

-----------------------------------------------------------------------------
(* parse_design.py: the logical DB and the netlist graph *)

\* _get_single_bit: the first bit of a Yosys bits array
get_single_bit(bit_list) == bit_list[1]

\* nets[net_id] created on first use, then the connection appended
add_net_connection(db, net_id, net_name, conn) ==
    IF net_id \in DOMAIN db.nets
    THEN [db EXCEPT !.nets[net_id].connections = Append(@, conn)]
    ELSE [db EXCEPT !.nets = Put(@, net_id, [name |-> net_name, connections |-> <<conn>>]),
                    !.net_order = Append(@, net_id)]

RECURSIVE parse_ports(_, _)
parse_ports(db, port_list) ==
    IF port_list = <<>> THEN db
    ELSE LET p == Head(port_list) IN
         IF p.bits = <<>> THEN parse_ports(db, Tail(port_list))
         ELSE LET net_id == get_single_bit(p.bits)
                  kind == IF p.direction = "input" THEN "inputs"
                          ELSE IF p.direction = "output" THEN "outputs" ELSE "inouts"
                  db1 == [db EXCEPT !.ports[kind] = Put(@, p.name, net_id),
                                    !.port_order = Append(@, p.name)]
              IN parse_ports(add_net_connection(db1, net_id, p.name, <<p.name, "PORT">>),
                             Tail(port_list))

RECURSIVE parse_pins(_, _, _)
\* cell pins: the pin recorded on the cell, the net created on first use
parse_pins(db, inst_name, conns) ==
    IF conns = <<>> THEN db
    ELSE LET c == Head(conns)
             net_id == get_single_bit(c.bits)
             conn == <<inst_name, c.pin>>
         IN IF net_id \in DOMAIN db.nets
            THEN parse_pins([db EXCEPT !.cells[inst_name].pins = Put(@, c.pin, net_id),
                                       !.nets[net_id].connections = Append(@, conn)],
                            inst_name, Tail(conns))
            ELSE parse_pins([db EXCEPT !.cells[inst_name].pins = Put(@, c.pin, net_id),
                                       !.nets = Put(@, net_id,
                                                    [name |-> "net_" \o ToString(net_id),
                                                     connections |-> <<conn>>]),
                                       !.net_order = Append(@, net_id)],
                            inst_name, Tail(conns))

RECURSIVE parse_cells(_, _)
parse_cells(db, cell_list) ==
    IF cell_list = <<>> THEN db
    ELSE LET c == Head(cell_list) IN
         IF c.type = "" THEN parse_cells(db, Tail(cell_list))
         ELSE IF c.type \in DOMAIN db.cells_by_type
         THEN parse_cells(parse_pins(
                  [db EXCEPT !.cells = Put(@, c.name, [type |-> c.type, pins |-> EmptyDict]),
                             !.cell_order = Append(@, c.name),
                             !.cells_by_type[c.type] = Append(@, c.name)],
                  c.name, c.connections), Tail(cell_list))
         ELSE parse_cells(parse_pins(
                  [db EXCEPT !.cells = Put(@, c.name, [type |-> c.type, pins |-> EmptyDict]),
                             !.cell_order = Append(@, c.name),
                             !.cells_by_type = Put(@, c.type, <<c.name>>)],
                  c.name, c.connections), Tail(cell_list))

EmptyDb ==
    [cells |-> EmptyDict, cell_order |-> <<>>, cells_by_type |-> EmptyDict,
     nets |-> EmptyDict, net_order |-> <<>>,
     ports |-> [inputs |-> EmptyDict, outputs |-> EmptyDict, inouts |-> EmptyDict],
     port_order |-> <<>>,
     meta |-> EmptyDict]

\* the node of each endpoint of a net, in list order
node_list(conns) == [i \in 1..Len(conns) |-> conns[i][1]]

RECURSIVE add_pairs(_, _, _, _, _, _)
add_pairs(G, nodes, i, j, net_name, net_id) ==
    IF i >= Len(nodes) THEN G
    ELSE IF j > Len(nodes) THEN add_pairs(G, nodes, i + 1, i + 2, net_name, net_id)
    ELSE LET e == {nodes[i], nodes[j]}
         IN IF e \in DOMAIN G.edges
            THEN add_pairs([G EXCEPT !.edges[e].nets = Append(@, net_name)],
                           nodes, i, j + 1, net_name, net_id)
            ELSE add_pairs([G EXCEPT !.edges = Put(@, e, [nets |-> <<net_name>>,
                                                          net_id |-> net_id]),
                                     !.nodes = @ \cup e],
                           nodes, i, j + 1, net_name, net_id)

\* the clique of one net: an edge per pair of endpoints, first net wins net_id
add_clique(G, nodes, net_name, net_id) ==
    IF Len(nodes) <= 1 THEN G ELSE add_pairs(G, nodes, 1, 2, net_name, net_id)

RECURSIVE add_net_edges(_, _, _)
add_net_edges(G, db, order) ==
    IF order = <<>> THEN G
    ELSE LET net_id == Head(order)
             net == db.nets[net_id]
         IN add_net_edges(add_clique(G, node_list(net.connections), net.name, net_id),
                          db, Tail(order))

build_netlist_graph(db) ==
    add_net_edges([nodes |-> (DOMAIN db.cells) \cup (DOMAIN db.ports.inputs)
                                \cup (DOMAIN db.ports.outputs),
                   edges |-> EmptyDict],
                  db, db.net_order)

parse_design_json(design) == parse_cells(parse_ports(EmptyDb, design.ports), design.cells)

\* netlist_graph.neighbors(n); a node listed twice on one net is its own neighbour
neighbors(G, n) == {m \in G.nodes : {n, m} \in DOMAIN G.edges}

-----------------------------------------------------------------------------
(* placer.py: greedy seeded placement *)

\* a mean kept exact: the sums of the coordinates and their number
Mean(points) ==
    [sx |-> SumSeq([i \in 1..Len(points) |-> points[i][1]]),
     sy |-> SumSeq([i \in 1..Len(points) |-> points[i][2]]),
     n  |-> Len(points)]

\* squared Euclidean distance of (x, y) to the mean m, times m.n squared
Dist2(x, y, m) == (x * m.n - m.sx) * (x * m.n - m.sx) + (y * m.n - m.sy) * (y * m.n - m.sy)

\* the free slots of the required type, fabric order
assign_candidates(fabric, required_type) ==
    {i \in 1..Len(fabric) : fabric[i].placed = NoCell /\ fabric[i].cell_type = required_type}

\* index of the slot assign_cell_to_nearest_slot picks, 0 when it raises ValueError:
\* the first slot, in fabric order, at the least distance from the target
assign_cell_to_nearest_slot(fabric, cell_name, target_pos, db) ==
    LET required_type == IF cell_name \in DOMAIN db.cells THEN db.cells[cell_name].type ELSE ""
        C == assign_candidates(fabric, required_type)
    IN IF C = {} THEN 0
       ELSE CHOOSE i \in C :
              \A j \in C : \/ Dist2(fabric[i].x, fabric[i].y, target_pos)
                                < Dist2(fabric[j].x, fabric[j].y, target_pos)
                           \/ /\ Dist2(fabric[i].x, fabric[i].y, target_pos)
                                   = Dist2(fabric[j].x, fabric[j].y, target_pos)
                              /\ i <= j

\* the placed neighbours of a cell, as a sequence in a fixed order
placed_neighbors(cell_name, G, placement_dict, order) ==
    FilterSeq(order, neighbors(G, cell_name) \cap DOMAIN placement_dict)

\* barycenter_position: None (n = 0) without placed neighbours
barycenter_position(cell_name, G, placement_dict, order) ==
    LET pn == placed_neighbors(cell_name, G, placement_dict, order)
    IN Mean([i \in 1..Len(pn) |-> <<placement_dict[pn[i]].x, placement_dict[pn[i]].y>>])

\* place_pins: every input and output port at its pin position
all_ports(db) == FilterSeq(db.port_order, (DOMAIN db.ports.inputs) \cup (DOMAIN db.ports.outputs))

pin_dict(pin_data) == [n \in {pin_data[i].name : i \in 1..Len(pin_data)} |->
                          CHOOSE p \in Range(pin_data) : p.name = n]

place_pins_ok(pin_data, db) == Range(all_ports(db)) \subseteq DOMAIN pin_dict(pin_data)

place_pins(pin_data, db) ==
    [port \in Range(all_ports(db)) |->
        [slot |-> port, cell_type |-> "PIN",
         x |-> pin_dict(pin_data)[port].x_um, y |-> pin_dict(pin_data)[port].y_um]]

\* every node name of a design in one fixed order (ports, then cells)
NodeOrder(db) == db.port_order \o db.cell_order

\* Stage 1 and the seed list of stage 2
initial_placement_begin ==
    /\ pc = "place"
    /\ IF place_pins_ok(pins, logical_db)
       THEN LET pl == place_pins(pins, logical_db)
                pin_nodes == DOMAIN pl
                seeds == FilterSeq(logical_db.cell_order,
                            {c \in DOMAIN logical_db.cells :
                                neighbors(netlist_graph, c) \cap pin_nodes # {}})
            IN /\ placement' = pl
               /\ seed_cells' = seeds
               /\ remaining_cells' = (DOMAIN logical_db.cells) \ Range(seeds)
               /\ pc' = "seed"
       ELSE /\ pc' = "place_failed"
            /\ UNCHANGED <<placement, seed_cells, remaining_cells>>
    /\ UNCHANGED <<sites, pins, logical_db, netlist_graph, fabric_to_logical_map,
                   design_json, sa, rng, runs, cts, eco,
                   config, viz, def_out>>

\* the effect of one successful assign_cell_to_nearest_slot on the fabric and the dict
place_cell(cell_name, target_pos) ==
    LET i == assign_cell_to_nearest_slot(sites, cell_name, target_pos, logical_db)
    IN IF i = 0
       THEN /\ pc' = "place_failed"
            /\ UNCHANGED <<sites, placement>>
       ELSE /\ sites' = [sites EXCEPT ![i].placed = cell_name]
            /\ placement' = Put(placement, cell_name,
                                [slot |-> sites[i].name, cell_type |-> sites[i].cell_type,
                                 x |-> sites[i].x, y |-> sites[i].y])
            /\ UNCHANGED pc

\* Stage 2: the next seed cell at the barycenter of its placed neighbours
initial_placement_seed ==
    /\ pc = "seed"
    /\ seed_cells # <<>>
    /\ LET cell == Head(seed_cells)
       IN place_cell(cell, barycenter_position(cell, netlist_graph, placement,
                                               NodeOrder(logical_db)))
    /\ seed_cells' = Tail(seed_cells)
    /\ UNCHANGED <<pins, logical_db, netlist_graph, remaining_cells, fabric_to_logical_map,
                   design_json, sa, rng, runs, cts, eco,
                   config, viz, def_out>>

\* the instance names of the designs, in Python's string order
SortedNames == <<"F0", "F1", "F2", "F3", "F4", "U0", "U1", "U2">>

\* position of a name in the sorted order of the instance names
NameRank(order, c) == CHOOSE i \in 1..Len(order) : order[i] = c

\* ranked.sort(reverse=True); ranked[0]: the greatest (count, name) tuple
most_connected(ranked_cells, G, placement_dict, sorted_names) ==
    LET cnt(c) == Cardinality(neighbors(G, c) \cap DOMAIN placement_dict)
    IN CHOOSE c \in ranked_cells :
         \A d \in ranked_cells :
            \/ cnt(c) > cnt(d)
            \/ cnt(c) = cnt(d) /\ NameRank(sorted_names, c) >= NameRank(sorted_names, d)

\* Stage 3: the most connected unplaced cell
initial_placement_grow ==
    /\ pc = "seed"
    /\ seed_cells = <<>>
    /\ LET ranked == {c \in remaining_cells :
                        neighbors(netlist_graph, c) \cap DOMAIN placement # {}}
       IN /\ ranked # {}
          /\ LET cell == most_connected(ranked, netlist_graph, placement, SortedNames)
             IN /\ place_cell(cell, barycenter_position(cell, netlist_graph, placement,
                                                        NodeOrder(logical_db)))
                /\ remaining_cells' = remaining_cells \ {cell}
    /\ UNCHANGED <<pins, logical_db, netlist_graph, seed_cells, fabric_to_logical_map,
                   design_json, sa, rng, runs, cts, eco,
                   config, viz, def_out>>

\* Stage 3, no ranked cell: remaining_cells.pop() placed nearest to the origin
initial_placement_fallback ==
    /\ pc = "seed"
    /\ seed_cells = <<>>
    /\ {c \in remaining_cells : neighbors(netlist_graph, c) \cap DOMAIN placement # {}} = {}
    /\ \E cell \in remaining_cells :
          /\ place_cell(cell, [sx |-> 0, sy |-> 0, n |-> 1])
          /\ remaining_cells' = remaining_cells \ {cell}
    /\ UNCHANGED <<pins, logical_db, netlist_graph, seed_cells, fabric_to_logical_map,
                   design_json, sa, rng, runs, cts, eco,
                   config, viz, def_out>>

\* return placement
initial_placement_return ==
    /\ pc = "seed"
    /\ seed_cells = <<>>
    /\ remaining_cells = {}
    /\ pc' = "placed"
    /\ UNCHANGED <<sites, pins, logical_db, netlist_graph, placement, seed_cells,
                   remaining_cells, fabric_to_logical_map, design_json, sa, rng, runs,
                   cts, eco,
                   config, viz, def_out>>

-----------------------------------------------------------------------------
(* optimized.py: simulated annealing *)

\* The configuration object handed to simulated_annealing.  Temperatures are
\* integers and cooling multiplies by CoolNum / CoolDen, rounding down.
InitialTemp == 100
FinalTemp == 1
CoolNum == 7
CoolDen == 8
MovesPerTemp == 1
MaxIterations == 25
WInitialNum == 1
WInitialDen == 2
ProbRefineNum == 1
ProbRefineDen == 2

DefaultConfig ==
    [initial_temp |-> InitialTemp, final_temp |-> FinalTemp,
     cooling_num |-> CoolNum, cooling_den |-> CoolDen,
     moves_per_temp |-> MovesPerTemp, max_iterations |-> MaxIterations,
     w_num |-> WInitialNum, w_den |-> WInitialDen,
     refine_num |-> ProbRefineNum, refine_den |-> ProbRefineDen]

\* the config argument of simulated_annealing
SAConfig == config

\* before main() of the visualization driver and of make_def.py
NoViz == EmptyDict
NoDef == EmptyDict

\* constants written in the body of simulated_annealing and explore_move
ReheatPatience == 20
ReheatFactor == 5
TopCandidates == 5

SetMax(S) == CHOOSE m \in S : \A n \in S : n <= m
SetMin(S) == CHOOSE m \in S : \A n \in S : m <= n

\* the (x, y) pair simulated_annealing reads as pos[0], pos[1] of every entry
positions_of(placement_dict) ==
    [n \in DOMAIN placement_dict |-> <<placement_dict[n].x, placement_dict[n].y>>]

\* calculate_hpwl: half perimeter of the placed endpoints of every net
net_hpwl(conns, pos) ==
    LET nodes == node_list(conns)
        placed == {i \in 1..Len(nodes) : nodes[i] \in DOMAIN pos}
        xs == {pos[nodes[i]][1] : i \in placed}
        ys == {pos[nodes[i]][2] : i \in placed}
    IN IF Cardinality(placed) < 2 THEN 0
       ELSE (SetMax(xs) - SetMin(xs)) + (SetMax(ys) - SetMin(ys))

calculate_hpwl(pos, db) ==
    SumSeq([i \in 1..Len(db.net_order) |-> net_hpwl(db.nets[db.net_order[i]].connections, pos)])

\* a variant of get_available_slots that forgets the occupancy test
get_available_slots_any(fabric, pos) == 1..Len(fabric)

\* get_available_slots: indices of the slots whose position no entry holds
get_available_slots(fabric, pos) ==
    {i \in 1..Len(fabric) : <<fabric[i].x, fabric[i].y>> \notin {pos[n] : n \in DOMAIN pos}}

\* get_fabric_slot_at_position: first slot at (x, y), 0 for None
get_fabric_slot_at_position(fabric, xy) ==
    LET S == {i \in 1..Len(fabric) : fabric[i].x = xy[1] /\ fabric[i].y = xy[2]}
    IN IF S = {} THEN 0 ELSE SetMin(S)

get_fabric_dimensions(fabric) ==
    <<SetMax({0} \cup {fabric[i].x : i \in 1..Len(fabric)}),
      SetMax({0} \cup {fabric[i].y : i \in 1..Len(fabric)})>>

is_port(n, db) == n \in (DOMAIN db.ports.inputs) \cup (DOMAIN db.ports.outputs)

\* abs(d) <= initial_window * temp_ratio, cross-multiplied
in_window(d, fabric, cfg, temperature) ==
    LET dim == get_fabric_dimensions(fabric)
        big == IF dim[1] >= dim[2] THEN dim[1] ELSE dim[2]
    IN Abs(d) * cfg.w_den * (cfg.initial_temp - cfg.final_temp)
          <= cfg.w_num * big * (temperature - cfg.final_temp)

\* the slots explore_move sorts: inside the window, or all free ones if none is
explore_available(fabric, pos, cell, cfg, temperature) ==
    LET all == get_available_slots(fabric, pos)
        old == pos[cell]
        near == {i \in all : /\ in_window(fabric[i].x - old[1], fabric, cfg, temperature)
                             /\ in_window(fabric[i].y - old[2], fabric, cfg, temperature)}
    IN IF near = {} THEN all ELSE near

\* centre the candidates are sorted around: placed non-port neighbours, else the cell
explore_center(pos, cell, G, db) ==
    LET pn == FilterSeq(NodeOrder(db),
                        {n \in neighbors(G, cell) : n \in DOMAIN pos /\ ~is_port(n, db)})
    IN IF pn = <<>> THEN [sx |-> pos[cell][1], sy |-> pos[cell][2], n |-> 1]
       ELSE Mean([i \in 1..Len(pn) |-> pos[pn[i]]])

\* available_sorted[:min(5, len)]: sorted() is stable, ties keep fabric order
explore_candidates(fabric, pos, cell, G, db, cfg, temperature) ==
    LET avail == explore_available(fabric, pos, cell, cfg, temperature)
        c == explore_center(pos, cell, G, db)
        d(i) == Dist2(fabric[i].x, fabric[i].y, c)
        before(i) == {j \in avail : d(j) < d(i) \/ (d(j) = d(i) /\ j < i)}
    IN {i \in avail : Cardinality(before(i)) < TopCandidates}

\* accept_move; lucky is the outcome of random.random() < exp(-delta / T), which
\* is certain for delta = 0 and open for delta > 0
accept_move(delta_cost, temperature, lucky) ==
    IF delta_cost < 0 THEN TRUE
    ELSE IF temperature <= 0 THEN FALSE
    ELSE IF delta_cost = 0 THEN TRUE
    ELSE lucky

\* a variant of the best-solution test that follows every accepted move
improves_best_always(new_cost, best_cost) == TRUE

\* if new_cost < best_cost
improves_best(new_cost, best_cost) == new_cost < best_cost

\* a variant of the loop condition without the iteration cap
loop_continues_uncapped(temperature, iteration, cfg) == temperature > cfg.final_temp

\* while temperature > config.final_temp and iteration < config.max_iterations
loop_continues(temperature, iteration, cfg) ==
    temperature > cfg.final_temp /\ iteration < cfg.max_iterations

\* build_complete_fabric_map: every site name to its instance or "UNUSED"
build_complete_fabric_map(fabric) ==
    [n \in {fabric[i].name : i \in 1..Len(fabric)} |->
        LET i == CHOOSE k \in 1..Len(fabric) : fabric[k].name = n
        IN IF fabric[i].placed = NoCell THEN "UNUSED" ELSE fabric[i].placed]

\* __main__: the map of the greedy placement, built before annealing
main_build_map ==
    /\ pc = "placed"
    /\ fabric_to_logical_map' = build_complete_fabric_map(sites)
    /\ pc' = "sa_start"
    /\ UNCHANGED <<sites, pins, logical_db, netlist_graph, placement, seed_cells,
                   remaining_cells, design_json, sa, rng, runs, cts, eco,
                   config, viz, def_out>>

\* simulated_annealing up to the first test of the loop condition
sa_begin ==
    /\ pc = "sa_start"
    /\ LET pos == positions_of(placement)
           cost == calculate_hpwl(pos, logical_db)
       IN /\ sa' = [current_placement |-> pos, best_placement |-> pos,
                    current_cost |-> cost, best_cost |-> cost, initial_cost |-> cost,
                    temperature |-> SAConfig.initial_temp, iteration |-> 0, m |-> 0,
                    no_improvement_count |-> 0, last_best_cost |-> cost,
                    blocks |-> 0, block_best |-> cost, reheated |-> FALSE,
                    degraded_blocks |-> 0, last_move |-> "none"]
          /\ pc' = IF loop_continues(SAConfig.initial_temp, 0, SAConfig)
                   THEN "sa_for" ELSE "sa_final"
    /\ UNCHANGED <<sites, pins, logical_db, netlist_graph, placement, seed_cells,
                   remaining_cells, fabric_to_logical_map, design_json, rng, runs, cts, eco,
                   config, viz, def_out>>

\* move_type is None: the proposal is counted as rejected; sa.last_move records
\* what the last iteration of the current block did with its proposal
sa_skip ==
    /\ sa' = [sa EXCEPT !.iteration = @ + 1, !.m = @ + 1, !.last_move = "skipped"]
    /\ UNCHANGED <<sites, fabric_to_logical_map>>

\* lines 406-431: the move is applied, costed, then kept or reverted
sa_decide(new_placement, lucky, kept_sites, kept_map, reverted_placement, reverted_sites, reverted_map) ==
    LET new_cost == calculate_hpwl(new_placement, logical_db)
        delta_cost == new_cost - sa.current_cost
    IN IF accept_move(delta_cost, sa.temperature, lucky)
       THEN /\ sa' = [sa EXCEPT !.iteration = @ + 1, !.m = @ + 1,
                                !.last_move = "accepted",
                                !.current_placement = new_placement,
                                !.current_cost = new_cost,
                                !.best_cost = IF improves_best(new_cost, sa.best_cost)
                                              THEN new_cost ELSE @,
                                !.best_placement = IF improves_best(new_cost, sa.best_cost)
                                                   THEN new_placement ELSE @]
            /\ sites' = kept_sites
            /\ fabric_to_logical_map' = kept_map
       ELSE /\ sa' = [sa EXCEPT !.iteration = @ + 1, !.m = @ + 1,
                                !.last_move = "rejected",
                                !.current_placement = reverted_placement]
            /\ sites' = reverted_sites
            /\ fabric_to_logical_map' = reverted_map

\* apply_move on the dict: the two cells exchange positions
refine_target(cur, cell1, cell2) == [cur EXCEPT ![cell1] = cur[cell2], ![cell2] = cur[cell1]]

\* apply_move on the dict: the cell takes the position of slot inew
explore_target(cur, cell, inew) == [cur EXCEPT ![cell] = <<sites[inew].x, sites[inew].y>>]

\* revert_move on the dict, refine: the two cells get pos1 and pos2 back
revert_refine(new_placement, cell1, cell2, pos1, pos2) ==
    [new_placement EXCEPT ![cell1] = pos1, ![cell2] = pos2]

\* a variant of the revert that leaves the dict as the move made it
revert_explore_none(new_placement, cell, old_pos) == new_placement

\* revert_move on the dict, explore: the cell gets old_pos back
revert_explore(new_placement, cell, old_pos) == [new_placement EXCEPT ![cell] = old_pos]

\* one iteration whose move is refine_move's swap of cell1 and cell2
refine_iteration(cell1, cell2, lucky) ==
    LET cur == sa.current_placement
        i1 == get_fabric_slot_at_position(sites, cur[cell1])
        i2 == get_fabric_slot_at_position(sites, cur[cell2])
    IN IF i1 = 0 \/ i2 = 0 THEN sa_skip
       ELSE sa_decide(refine_target(cur, cell1, cell2), lucky,
                      [sites EXCEPT ![i1].placed = cell2, ![i2].placed = cell1],
                      Put(Put(fabric_to_logical_map, sites[i1].name, cell2),
                          sites[i2].name, cell1),
                      revert_refine(refine_target(cur, cell1, cell2), cell1, cell2,
                                    cur[cell1], cur[cell2]),
                      [sites EXCEPT ![i1].placed = cell1, ![i2].placed = cell2],
                      Put(Put(fabric_to_logical_map, sites[i1].name, cell1),
                          sites[i2].name, cell2))

\* one iteration whose move is explore_move's shift of cell to slot inew
explore_iteration(cell, inew, lucky) ==
    LET cur == sa.current_placement
        iold == get_fabric_slot_at_position(sites, cur[cell])
    IN sa_decide(explore_target(cur, cell, inew), lucky,
                 [sites EXCEPT ![iold].placed = NoCell, ![inew].placed = cell],
                 Put(Put(fabric_to_logical_map, sites[iold].name, "UNUSED"),
                     sites[inew].name, cell),
                 revert_explore(explore_target(cur, cell, inew), cell, cur[cell]),
                 [sites EXCEPT ![inew].placed = NoCell, ![iold].placed = cell],
                 Put(Put(fabric_to_logical_map, sites[iold].name, cell),
                     sites[inew].name, "UNUSED"))

sa_unchanged == UNCHANGED <<pc, pins, logical_db, netlist_graph, placement, seed_cells,
                            remaining_cells, design_json, rng, runs, cts, eco,
                   config, viz, def_out>>

sa_in_block == pc = "sa_for" /\ sa.m < SAConfig.moves_per_temp

\* iteration with rand_val < prob_refine, the generator in any state
sa_refine ==
    /\ sa_in_block
    /\ SAConfig.refine_num > 0
    /\ LET cells == logical_db.cell_order
       IN IF Len(cells) < 2 THEN sa_skip
          ELSE \E cell1 \in Range(cells), cell2 \in Range(cells), lucky \in BOOLEAN :
                  /\ cell1 # cell2
                  /\ refine_iteration(cell1, cell2, lucky)
    /\ sa_unchanged

\* iteration with rand_val >= prob_refine, the generator in any state
sa_explore ==
    /\ sa_in_block
    /\ SAConfig.refine_num < SAConfig.refine_den
    /\ LET cells == logical_db.cell_order
       IN IF get_available_slots(sites, sa.current_placement) = {} \/ cells = <<>>
          THEN sa_skip
          ELSE \E cell \in Range(cells), lucky \in BOOLEAN :
                  IF get_fabric_slot_at_position(sites, sa.current_placement[cell]) = 0
                  THEN sa_skip
                  ELSE \E inew \in explore_candidates(sites, sa.current_placement, cell,
                                                     netlist_graph, logical_db, SAConfig,
                                                     sa.temperature) :
                          explore_iteration(cell, inew, lucky)
    /\ sa_unchanged

\* current_cost > best_cost * 1.5; sa.degraded_blocks records at how many block
\* ends in a row, since the last reheat, this held while best_cost did not improve
degraded(current_cost, best_cost) == 2 * current_cost > 3 * best_cost

\* lines 434-459: end of a temperature block, then the loop condition again
sa_end_block ==
    /\ pc = "sa_for"
    /\ sa.m = SAConfig.moves_per_temp
    /\ LET improved == sa.best_cost < sa.last_best_cost
           count == IF improved THEN 0 ELSE sa.no_improvement_count + 1
           reheat == degraded(sa.current_cost, sa.best_cost) /\ count > ReheatPatience
           t1 == IF reheat
                 THEN Min2(sa.temperature * ReheatFactor, SAConfig.initial_temp \div 2)
                 ELSE sa.temperature
           t2 == (t1 * SAConfig.cooling_num) \div SAConfig.cooling_den
       IN /\ sa' = [sa EXCEPT
                      !.blocks = @ + 1,
                      !.block_best = sa.best_cost,
                      !.last_best_cost = IF improved THEN sa.best_cost ELSE @,
                      !.no_improvement_count = IF reheat THEN 0 ELSE count,
                      !.current_placement = IF reheat THEN sa.best_placement ELSE @,
                      !.current_cost = IF reheat THEN sa.best_cost ELSE @,
                      !.reheated = @ \/ reheat,
                      !.degraded_blocks =
                          IF ~reheat /\ ~improved /\ degraded(sa.current_cost, sa.best_cost)
                          THEN @ + 1 ELSE 0,
                      !.temperature = t2,
                      !.last_move = "none",
                      !.m = 0]
          /\ pc' = IF loop_continues(t2, sa.iteration, SAConfig) THEN "sa_for" ELSE "sa_final"
    /\ UNCHANGED <<sites, pins, logical_db, netlist_graph, placement, seed_cells,
                   remaining_cells, fabric_to_logical_map, design_json, rng, runs, cts, eco,
                   config, viz, def_out>>

\* lines 462-479: the final statistics divide by initial_cost and by iteration
sa_return ==
    /\ pc = "sa_final"
    /\ IF sa.initial_cost = 0 \/ sa.iteration = 0
       THEN /\ pc' = "sa_raised"
            /\ UNCHANGED runs
       ELSE /\ pc' = "sa_done"
            /\ runs' = Append(runs, [best_placement |-> sa.best_placement,
                                     best_cost |-> sa.best_cost,
                                     initial_cost |-> sa.initial_cost,
                                     iterations |-> sa.iteration])
    /\ UNCHANGED <<sites, pins, logical_db, netlist_graph, placement, seed_cells,
                   remaining_cells, fabric_to_logical_map, design_json, sa, rng, cts, eco,
                   config, viz, def_out>>

-----------------------------------------------------------------------------
(* Inputs of the placement flow: a one-tile fabric and small netlists *)

Site(name, tile, type, x, y) ==
    [name |-> name, tile |-> tile, cell_type |-> type, x |-> x, y |-> y, placed |-> NoCell]

FabricSA ==
    <<Site("T0_NAND_0", "T0", NAND, 0, 2), Site("T0_NAND_1", "T0", NAND, 2, 0),
      Site("T0_NAND_2", "T0", NAND, 4, 0), Site("T0_DFF_0", "T0", DFF, 5, 0)>>

PinsSA == <<[name |-> "in1", x_um |-> 0, y_um |-> 0], [name |-> "out1", x_um |-> 6, y_um |-> 0]>>

Port(name, direction, bits) == [name |-> name, direction |-> direction, bits |-> bits]
Cell(name, type, connections) == [name |-> name, type |-> type, connections |-> connections]
Conn(pin, bits) == [pin |-> pin, bits |-> bits]

\* in1 -> U0 -> U1 -> F0 -> out1
DesignChain ==
    [ports |-> <<Port("in1", "input", <<2>>), Port("out1", "output", <<5>>)>>,
     cells |-> <<Cell("U0", NAND, <<Conn("A", <<2>>), Conn("B", <<2>>), Conn("Y", <<3>>)>>),
                 Cell("U1", NAND, <<Conn("A", <<3>>), Conn("B", <<3>>), Conn("Y", <<4>>)>>),
                 Cell("F0", DFF, <<Conn("D", <<4>>), Conn("Q", <<5>>)>>)>>]

\* U2 shares no net with any other node
DesignLoose ==
    [ports |-> <<Port("in1", "input", <<2>>), Port("out1", "output", <<3>>)>>,
     cells |-> <<Cell("U0", NAND, <<Conn("A", <<2>>), Conn("B", <<2>>), Conn("Y", <<3>>)>>),
                 Cell("U2", NAND, <<Conn("A", <<7>>), Conn("B", <<8, 9>>)>>)>>]

DesignsSA == {DesignChain, DesignLoose}

NoSA == [current_placement |-> EmptyDict, best_placement |-> EmptyDict,
         current_cost |-> 0, best_cost |-> 0, initial_cost |-> 0,
         temperature |-> 0, iteration |-> 0, m |-> 0,
         no_improvement_count |-> 0, last_best_cost |-> 0,
         blocks |-> 0, block_best |-> 0, reheated |-> FALSE, degraded_blocks |-> 0,
         last_move |-> "none"]

\* the state before parse_design_json, the generator in state seed
InitPlacement(seed) ==
    /\ pc = "parse"
    /\ design_json \in DesignsSA
    /\ config = DefaultConfig
    /\ viz = NoViz
    /\ def_out = NoDef
    /\ sites = FabricSA
    /\ pins = PinsSA
    /\ logical_db = EmptyDb
    /\ netlist_graph = [nodes |-> {}, edges |-> EmptyDict]
    /\ placement = EmptyDict
    /\ seed_cells = <<>>
    /\ remaining_cells = {}
    /\ fabric_to_logical_map = EmptyDict
    /\ sa = NoSA
    /\ rng = seed
    /\ runs = <<>>
    /\ cts = EmptyDict
    /\ eco = EmptyDict

Init == InitPlacement(0)

\* parse_design_json: the logical DB and the netlist graph of the design
parse_design ==
    /\ pc = "parse"
    /\ logical_db' = parse_design_json(design_json)
    /\ netlist_graph' = build_netlist_graph(logical_db')
    /\ pc' = "place"
    /\ UNCHANGED <<sites, pins, placement, seed_cells, remaining_cells,
                   fabric_to_logical_map, design_json, sa, rng, runs, cts, eco,
                   config, viz, def_out>>

Next ==
    \/ parse_design
    \/ initial_placement_begin
    \/ initial_placement_seed
    \/ initial_placement_grow
    \/ initial_placement_fallback
    \/ initial_placement_return
    \/ main_build_map
    \/ sa_begin
    \/ sa_refine
    \/ sa_explore
    \/ sa_end_block
    \/ sa_return

Spec == Init /\ [][Next]_vars

-----------------------------------------------------------------------------
(* The generator of module random, which every draw of optimized.py uses.      *)
(* It is one object per process; a linear congruential generator stands for   *)
(* it: a state, a step, and an output in 0 .. 15 read as output / 16.         *)

NextRng(r) == (r * 137 + 187) % 256

RngOut(r) == r \div 16

\* random.random() < num / den
random_below(r, num, den) == RngOut(r) * den < num * 16

\* random.choice(seq)
random_choice(r, seq) == seq[(RngOut(r) % Len(seq)) + 1]

\* the sequence without its element e
without(seq, e) == FilterSeq(seq, Range(seq) \ {e})

\* the candidates of explore_move in sorted order
RECURSIVE sorted_candidates(_, _)
sorted_candidates(S, d) ==
    IF S = {} THEN <<>>
    ELSE LET i == CHOOSE i \in S : \A j \in S : d[i] < d[j] \/ (d[i] = d[j] /\ i <= j)
         IN <<i>> \o sorted_candidates(S \ {i}, d)

\* random.random() < exp(-delta / T), with T / (T + delta) standing for the
\* exponential: 1 at delta = 0, falling with delta, rising with T
accept_draw(r, delta_cost, temperature) ==
    RngOut(r) * (temperature + delta_cost) < 16 * temperature

\* the generator after accept_move: it draws unless delta < 0 or T <= 0
after_accept(r, delta_cost, temperature) ==
    IF delta_cost < 0 \/ temperature <= 0 THEN r ELSE NextRng(r)

\* one iteration of the inner loop, every choice read from the process generator
sa_iteration_global ==
    /\ sa_in_block
    /\ LET cur == sa.current_placement
           cells == logical_db.cell_order
           r1 == NextRng(rng)
           r2 == NextRng(r1)
           r3 == NextRng(r2)
           delta(new) == calculate_hpwl(new, logical_db) - sa.current_cost
       IN IF random_below(r1, SAConfig.refine_num, SAConfig.refine_den)
          THEN IF Len(cells) < 2
               THEN sa_skip /\ rng' = r1
               ELSE LET cell1 == random_choice(r2, cells)
                        cell2 == random_choice(r3, without(cells, cell1))
                        d == delta(refine_target(cur, cell1, cell2))
                    IN /\ refine_iteration(cell1, cell2,
                                           accept_draw(NextRng(r3), d, sa.temperature))
                       /\ rng' = IF get_fabric_slot_at_position(sites, cur[cell1]) = 0
                                    \/ get_fabric_slot_at_position(sites, cur[cell2]) = 0
                                 THEN r3 ELSE after_accept(r3, d, sa.temperature)
          ELSE IF get_available_slots(sites, cur) = {} \/ cells = <<>>
               THEN sa_skip /\ rng' = r1
               ELSE LET cell == random_choice(r2, cells)
                    IN IF get_fabric_slot_at_position(sites, cur[cell]) = 0
                       THEN sa_skip /\ rng' = r2
                       ELSE LET c == explore_center(cur, cell, netlist_graph, logical_db)
                                cand == explore_candidates(sites, cur, cell, netlist_graph,
                                                           logical_db, SAConfig,
                                                           sa.temperature)
                                dist == [i \in cand |-> Dist2(sites[i].x, sites[i].y, c)]
                                inew == random_choice(r3, sorted_candidates(cand, dist))
                                d == delta(explore_target(cur, cell, inew))
                            IN /\ explore_iteration(cell, inew,
                                     accept_draw(NextRng(r3), d, sa.temperature))
                               /\ rng' = after_accept(r3, d, sa.temperature)
    /\ UNCHANGED <<pc, pins, logical_db, netlist_graph, placement, seed_cells,
                   remaining_cells, design_json, runs, cts, eco,
                   config, viz, def_out>>

\* number of calls of simulated_annealing the caller makes in one process
Runs == 2

\* the caller runs simulated_annealing again: same placement, same configuration
sa_call_again ==
    /\ pc = "sa_done"
    /\ Len(runs) < Runs
    /\ pc' = "sa_start"
    /\ UNCHANGED <<sites, pins, logical_db, netlist_graph, placement, seed_cells,
                   remaining_cells, fabric_to_logical_map, design_json, sa, rng, runs,
                   cts, eco,
                   config, viz, def_out>>

\* random.seed(s), called once by the caller before the first run
Seeds == 0..7

InitDet == \E s \in Seeds : InitPlacement(NextRng(s))

NextDet ==
    \/ parse_design
    \/ initial_placement_begin
    \/ initial_placement_seed
    \/ initial_placement_grow
    \/ initial_placement_fallback
    \/ initial_placement_return
    \/ main_build_map
    \/ sa_begin
    \/ sa_iteration_global
    \/ sa_end_block
    \/ sa_return
    \/ sa_call_again

SpecDet == InitDet /\ [][NextDet]_vars

-----------------------------------------------------------------------------
(* cts_htree.py: H-tree clock tree synthesis *)

\* every site name of the fabrics, in Python's string order
SortedSiteNames ==
    <<"T0_BUF_0", "T0_BUF_1", "T0_CONB_0", "T0_DFF_0", "T0_DFF_1", "T0_DFF_2",
      "T0_DFF_3", "T0_DFF_4", "T0_INV_0", "T0_NAND_0", "T0_NAND_1", "T1_CONB_0", "T1_CONB_1",
      "T1_INV_0", "T1_OAI_0">>

\* every port name of the designs, in Python's string order
SortedPortNames == <<"clk", "in1", "out1">>

site_names(fabric) == {fabric[i].name : i \in 1..Len(fabric)}

site_named(fabric, n) == fabric[CHOOSE i \in 1..Len(fabric) : fabric[i].name = n]

\* write_map_file of placer.py: the pins, then one line per placed cell, by slot name
write_map_file(placement_dict) ==
    LET cells == {n \in DOMAIN placement_dict : placement_dict[n].cell_type # "PIN"}
        slot_of == [s \in {placement_dict[n].slot : n \in cells} |->
                       CHOOSE n \in cells : placement_dict[n].slot = s]
    IN [ports |-> FilterSeq(SortedPortNames,
                            {n \in DOMAIN placement_dict : placement_dict[n].cell_type = "PIN"}),
        port_xy |-> [n \in {m \in DOMAIN placement_dict : placement_dict[m].cell_type = "PIN"} |->
                        <<placement_dict[n].x, placement_dict[n].y>>],
        order |-> FilterSeq(SortedSiteNames, DOMAIN slot_of),
        line |-> [s \in DOMAIN slot_of |->
                    [type |-> placement_dict[slot_of[s]].cell_type,
                     x |-> placement_dict[slot_of[s]].x, y |-> placement_dict[slot_of[s]].y,
                     mapped |-> slot_of[s]]]]

\* the map with one line per fabric site, UNUSED for the free ones
write_complete_map(placement_dict, fabric) ==
    LET m == write_map_file(placement_dict)
    IN [m EXCEPT !.order = FilterSeq(SortedSiteNames, site_names(fabric)),
                 !.line = [s \in site_names(fabric) |->
                             IF s \in DOMAIN m.line THEN m.line[s]
                             ELSE [type |-> site_named(fabric, s).cell_type,
                                   x |-> site_named(fabric, s).x,
                                   y |-> site_named(fabric, s).y,
                                   mapped |-> "UNUSED"]]]

\* parse_placement_map: fabric_cells with the is_unused flag
parse_placement_map(file) ==
    [s \in DOMAIN file.line |->
        [type |-> file.line[s].type, x |-> file.line[s].x, y |-> file.line[s].y,
         mapped |-> file.line[s].mapped, is_unused |-> file.line[s].mapped = "UNUSED"]]

NoNet == 0

\* 'clk' in port_name.lower(), for the port names of the designs
is_clk_name(port_name) == port_name \in {"clk"}

\* find_clock_net without a clock_name: the first port of the map named like a clock
find_clock_net(io_ports, db) ==
    LET hits == {i \in 1..Len(io_ports) : is_clk_name(io_ports[i])}
    IN IF hits = {} THEN [clock_net |-> "", clock_net_id |-> NoNet]
       ELSE LET port_name == io_ports[SetMin(hits)]
            IN [clock_net |-> port_name,
                clock_net_id |-> IF port_name \in DOMAIN db.ports.inputs
                                 THEN db.ports.inputs[port_name] ELSE NoNet]

\* find_sinks: the used flip-flop sites of the map, in file order
find_sinks(file) ==
    LET fc == parse_placement_map(file)
        dffs == FilterSeq(file.order, {s \in DOMAIN fc : is_dff(fc[s].type) /\ ~fc[s].is_unused})
    IN [i \in 1..Len(dffs) |->
          [id |-> dffs[i], type |-> fc[dffs[i]].type, x |-> fc[dffs[i]].x,
           y |-> fc[dffs[i]].y, mapped |-> fc[dffs[i]].mapped]]

\* the buffer and inverter sites of the fabric, used or not
find_resources_all(file, fabric) ==
    LET ok == {i \in 1..Len(fabric) :
                 is_buffer(fabric[i].cell_type) \/ is_inverter(fabric[i].cell_type)}
        idx == FilterSeq([i \in 1..Len(fabric) |-> i], ok)
    IN [k \in 1..Len(idx) |->
          [name |-> fabric[idx[k]].name, type |-> fabric[idx[k]].cell_type,
           x |-> fabric[idx[k]].x, y |-> fabric[idx[k]].y, claimed |-> FALSE,
           is_buffer |-> is_buffer(fabric[idx[k]].cell_type)]]

\* find_resources: buffer and inverter sites of the fabric the map does not use
find_resources(file, fabric) ==
    LET fc == parse_placement_map(file)
        used_cells == {fc[s].mapped : s \in {t \in DOMAIN fc : ~fc[t].is_unused}}
        ok == {i \in 1..Len(fabric) :
                 /\ fabric[i].name \notin used_cells
                 /\ ~(fabric[i].name \in DOMAIN fc /\ ~fc[fabric[i].name].is_unused)
                 /\ (is_buffer(fabric[i].cell_type) \/ is_inverter(fabric[i].cell_type))}
        idx == FilterSeq([i \in 1..Len(fabric) |-> i], ok)
    IN [k \in 1..Len(idx) |->
          [name |-> fabric[idx[k]].name, type |-> fabric[idx[k]].cell_type,
           x |-> fabric[idx[k]].x, y |-> fabric[idx[k]].y, claimed |-> FALSE,
           is_buffer |-> is_buffer(fabric[idx[k]].cell_type)]]

\* constants of the base case of build_htree_recursive
LeafSinks == 4
MaxLevel == 8

\* compute_centroid of a non-empty list of sinks
compute_centroid(sinks) == Mean([i \in 1..Len(sinks) |-> <<sinks[i].x, sinks[i].y>>])

\* the unclaimed resources one pass of find_nearest_resource looks at
nearest_pool(resources, prefer_buffer) ==
    {i \in 1..Len(resources) :
        ~resources[i].claimed /\ (prefer_buffer => resources[i].is_buffer)}

\* find_nearest_resource: index of the resource, 0 for None; buffers first,
\* inverters only when no unclaimed buffer is left; the first of the nearest wins
find_nearest_resource(resources, c) ==
    LET first_nearest(P) ==
            CHOOSE i \in P : \A j \in P :
                \/ Dist2(resources[i].x, resources[i].y, c) < Dist2(resources[j].x, resources[j].y, c)
                \/ /\ Dist2(resources[i].x, resources[i].y, c) = Dist2(resources[j].x, resources[j].y, c)
                   /\ i <= j
    IN IF nearest_pool(resources, TRUE) # {} THEN first_nearest(nearest_pool(resources, TRUE))
       ELSE IF nearest_pool(resources, FALSE) # {}
            THEN first_nearest(nearest_pool(resources, FALSE))
            ELSE 0

\* partition_sinks: NE, NW, SW, SE around the centroid, empty quadrants dropped
partition_sinks(sinks, c) ==
    LET dx(k) == sinks[k].x * c.n - c.sx
        dy(k) == sinks[k].y * c.n - c.sy
        idx == [k \in 1..Len(sinks) |-> k]
        pick(S) == LET ks == FilterSeq(idx, S) IN [k \in 1..Len(ks) |-> sinks[ks[k]]]
        ne == pick({k \in 1..Len(sinks) : dx(k) >= 0 /\ dy(k) >= 0})
        nw == pick({k \in 1..Len(sinks) : dx(k) < 0 /\ dy(k) >= 0})
        sw == pick({k \in 1..Len(sinks) : dx(k) < 0 /\ dy(k) < 0})
        se == pick({k \in 1..Len(sinks) : dx(k) >= 0 /\ dy(k) < 0})
    IN SelectSeq(<<ne, nw, sw, se>>, LAMBDA q : q # <<>>)

NoBuffer == ""

\* a tree node; leaf nodes are those with the key sink_logical_names (the
\* position of the buffer, which nothing reads back, is left out)
TreeNode(level, parent, leaf, sinks, c, buffer, buffer_type, children) ==
    [level |-> level, parent |-> parent, leaf |-> leaf,
     sinks |-> IF leaf THEN [i \in 1..Len(sinks) |-> sinks[i].id] ELSE <<>>,
     sink_logical_names |-> IF leaf THEN [i \in 1..Len(sinks) |-> sinks[i].mapped] ELSE <<>>,
     centroid |-> c, buffer |-> buffer, buffer_type |-> buffer_type, children |-> children]

RECURSIVE build_htree_recursive(_, _, _, _)
RECURSIVE build_children(_, _, _, _, _)

\* the loop over the quadrants: the children so far and the resources after them
build_children(quadrants, level, buffer_name, resources, children) ==
    IF quadrants = <<>> THEN [children |-> children, resources |-> resources]
    ELSE LET r == build_htree_recursive(Head(quadrants), level + 1, buffer_name, resources)
         IN build_children(Tail(quadrants), level, buffer_name, r.resources,
                           Append(children, r.node))

\* build_htree_recursive on a non-empty list: the node and the resources after it
build_htree_recursive(sinks, level, parent_buffer, resources) ==
    LET c == compute_centroid(sinks)
        b == find_nearest_resource(resources, c)
        claimed == IF b = 0 THEN resources ELSE [resources EXCEPT ![b].claimed = TRUE]
        name == IF b = 0 THEN NoBuffer ELSE resources[b].name
        type == IF b = 0 THEN "BUF" ELSE resources[b].type
    IN IF Len(sinks) <= LeafSinks \/ level > MaxLevel
       THEN [node |-> TreeNode(level, parent_buffer, TRUE, sinks, c, name, type, <<>>),
             resources |-> claimed]
       ELSE LET buffer_name == IF b = 0 THEN "virtual_buf_L" \o ToString(level) ELSE name
                r == build_children(partition_sinks(sinks, c), level, buffer_name,
                                    claimed, <<>>)
            IN [node |-> TreeNode(level, parent_buffer, FALSE, sinks, c, name, type,
                                  r.children),
                resources |-> r.resources]

\* the empty dict the constructor leaves in clock_tree
NoTree == [leaf |-> FALSE, empty |-> TRUE]

\* build_clock_tree: nothing is built without sinks or without resources
build_clock_tree(sinks, resources) ==
    IF sinks = <<>> \/ resources = <<>>
    THEN [node |-> NoTree, resources |-> resources]
    ELSE build_htree_recursive(sinks, 0, "clk_root", resources)

\* the clock net left as it was
port_connection_kept(old_connections, clock_net) == old_connections

\* old_net['connections'] = [(clock_net, 'PORT')]
port_connection(old_connections, clock_net) == << <<clock_net, "PORT">> >>

\* remove_old_clock_connections: the pins on the clock net are deleted from their
\* cells, the net keeps the port entry only, the graph loses the net's edges
remove_old_clock_connections(db, G, clock_net, clock_net_id) ==
    IF clock_net_id = NoNet \/ clock_net_id \notin DOMAIN db.nets
    THEN [db |-> db, G |-> G]
    ELSE LET old_connections == db.nets[clock_net_id].connections
             gone(inst) == {old_connections[i][2] : i \in
                              {k \in 1..Len(old_connections) :
                                 /\ old_connections[k][1] = inst
                                 /\ inst # clock_net
                                 /\ old_connections[k][2] \in DOMAIN db.cells[inst].pins
                                 /\ db.cells[inst].pins[old_connections[k][2]] = clock_net_id}}
             cells1 == [inst \in DOMAIN db.cells |->
                          [db.cells[inst] EXCEPT
                             !.pins = [p \in (DOMAIN @) \ gone(inst) |-> @[p]]]]
         IN [db |-> [db EXCEPT !.cells = cells1,
                               !.nets[clock_net_id].connections =
                                   port_connection(old_connections, clock_net)],
             G |-> [G EXCEPT !.edges = [e \in {f \in DOMAIN @ : @[f].net_id # clock_net_id}
                                          |-> @[e]]]]

\* the clock pin of a sink: 'C' if the cell has a pin of that name, else 'CLK'
clock_pin(db, sink_name) == IF "C" \in DOMAIN db.cells[sink_name].pins THEN "C" ELSE "CLK"

\* the connections of the sinks of a leaf to net_id, for the sinks that are cells
sink_connections(node, net_id, db) ==
    LET names == IF node.leaf THEN FilterSeq(node.sink_logical_names, DOMAIN db.cells)
                 ELSE <<>>
    IN [i \in 1..Len(names) |-> <<names[i], clock_pin(db, names[i]), net_id>>]

RECURSIVE traverse_tree(_, _, _, _)
RECURSIVE traverse_children(_, _, _, _)

traverse_children(children, net_id, st, db) ==
    IF children = <<>> THEN st
    ELSE traverse_children(Tail(children), net_id,
                           traverse_tree(Head(children), net_id, st, db), db)

\* traverse_tree: st holds net_counter, buffers_to_add and connections_to_add
traverse_tree(node, parent_net_id, st, db) ==
    IF node.buffer # NoBuffer
    THEN LET out_net_id == st.net_counter
             st1 == [net_counter |-> st.net_counter + 1,
                     buffers_to_add |-> Append(st.buffers_to_add,
                                               [name |-> node.buffer, type |-> node.buffer_type,
                                                in_net |-> parent_net_id,
                                                out_net |-> out_net_id]),
                     connections_to_add |-> st.connections_to_add \o
                                            << <<node.buffer, "A", parent_net_id>>,
                                               <<node.buffer, "Y", out_net_id>> >>]
             st2 == traverse_children(node.children, out_net_id, st1, db)
         IN [st2 EXCEPT !.connections_to_add = @ \o sink_connections(node, out_net_id, db)]
    ELSE LET st2 == traverse_children(node.children, parent_net_id, st, db)
         IN [st2 EXCEPT !.connections_to_add = @ \o sink_connections(node, parent_net_id, db)]

RECURSIVE add_buffers(_, _)
\* the buffers become cells with pins A and Y, are listed by type, and are graph nodes
add_buffers(r, buffers) ==
    IF buffers = <<>> THEN r
    ELSE LET buf == Head(buffers)
             db1 == [r.db EXCEPT
                       !.cells = Put(@, buf.name,
                                     [type |-> buf.type,
                                      pins |-> Put(Put(EmptyDict, "A", buf.in_net),
                                                   "Y", buf.out_net)]),
                       !.cell_order = IF buf.name \in DOMAIN r.db.cells THEN @
                                      ELSE Append(@, buf.name),
                       !.cells_by_type =
                           Put(@, buf.type,
                               IF buf.type \in DOMAIN @ THEN Append(@[buf.type], buf.name)
                               ELSE <<buf.name>>)]
         IN add_buffers([db |-> db1, G |-> [r.G EXCEPT !.nodes = @ \cup {buf.name}]],
                        Tail(buffers))

RECURSIVE add_connections(_, _)
\* the pin of each connection is set, and the connection is filed under its net;
\* nc is the defaultdict net_connections with its key order
add_connections(r, conns) ==
    IF conns = <<>> THEN r
    ELSE LET c == Head(conns)
             inst_name == c[1]
             pin_name == c[2]
             net_id == c[3]
             db1 == IF inst_name \in DOMAIN r.db.cells
                    THEN [r.db EXCEPT !.cells[inst_name].pins = Put(@, pin_name, net_id)]
                    ELSE r.db
             nc1 == IF net_id \in DOMAIN r.nc
                    THEN [r.nc EXCEPT ![net_id] = Append(@, <<inst_name, pin_name>>)]
                    ELSE Put(r.nc, net_id, << <<inst_name, pin_name>> >>)
             order1 == IF net_id \in DOMAIN r.nc THEN r.order ELSE Append(r.order, net_id)
         IN add_connections([db |-> db1, nc |-> nc1, order |-> order1], Tail(conns))

RECURSIVE add_clock_nets(_, _, _)
\* a net missing from the DB is created as clk_net_<id>; the connections are appended
add_clock_nets(db, nc, order) ==
    IF order = <<>> THEN db
    ELSE LET net_id == Head(order)
             db1 == IF net_id \in DOMAIN db.nets THEN db
                    ELSE [db EXCEPT !.nets = Put(@, net_id,
                                                 [name |-> "clk_net_" \o ToString(net_id),
                                                  connections |-> <<>>]),
                                    !.net_order = Append(@, net_id)]
         IN add_clock_nets([db1 EXCEPT !.nets[net_id].connections = @ \o nc[net_id]],
                           nc, Tail(order))

RECURSIVE add_clock_edges(_, _, _, _)
add_clock_edges(G, db, nc, order) ==
    IF order = <<>> THEN G
    ELSE add_clock_edges(add_clique(G, node_list(nc[Head(order)]),
                                    db.nets[Head(order)].name, Head(order)),
                         db, nc, Tail(order))

\* max(nets.keys()) + 1, the first new net id
first_net_counter(db) == IF DOMAIN db.nets = {} THEN 1 ELSE SetMax(DOMAIN db.nets) + 1

\* update_logical_db_and_graph: nothing without a tree; else the old clock
\* connections are removed and the tree's buffers, nets and edges are added
update_logical_db_and_graph(db, G, clock_tree, clock_net, clock_net_id) ==
    IF clock_tree = NoTree THEN [db |-> db, G |-> G]
    ELSE LET r0 == remove_old_clock_connections(db, G, clock_net, clock_net_id)
             st == traverse_tree(clock_tree, clock_net_id,
                                 [net_counter |-> first_net_counter(r0.db),
                                  buffers_to_add |-> <<>>, connections_to_add |-> <<>>],
                                 r0.db)
             r1 == add_buffers(r0, st.buffers_to_add)
             r2 == add_connections([db |-> r1.db, nc |-> EmptyDict, order |-> <<>>],
                                   st.connections_to_add)
             db3 == add_clock_nets(r2.db, r2.nc, r2.order)
         IN [db |-> db3, G |-> add_clock_edges(r1.G, db3, r2.nc, r2.order)]

\* write_placement: the lines of the map read, a claimed resource mapped to itself
write_placement(file, resources) ==
    [file EXCEPT !.line = [s \in DOMAIN @ |->
        IF \E i \in 1..Len(resources) : resources[i].name = s /\ resources[i].claimed
        THEN [@[s] EXCEPT !.mapped = s] ELSE @[s]]]

-----------------------------------------------------------------------------
(* power_down.py: tie-off of the unused fabric cells *)

\* is_macro, for the patterns a type name of the fabrics can contain
is_macro(t) ==
    \E p \in {"dfbbp", "sram", "regfile", "macro", "dffram", "fifo"} : has(t, p)

is_infrastructure(t) ==
    \E p \in {"tap", "decap", "conb", "fill", "diode", "antenna", "endcap", "welltap"} :
        has(t, p)

\* get_cell_input_pins by the name patterns: the fabric DB holds no cell_library
get_cell_input_pins(t) ==
    IF \E g \in {"nand2", "nor2", "and2", "or2", "xor2", "xnor2"} : has(t, g)
    THEN <<"A", "B">>
    ELSE IF \E g \in {"nand3", "nor3", "and3", "or3"} : has(t, g) THEN <<"A", "B", "C">>
    ELSE IF \E g \in {"nand4", "nor4", "and4", "or4"} : has(t, g) THEN <<"A", "B", "C", "D">>
    ELSE IF \E g \in {"inv", "buf", "clkbuf"} : has(t, g) THEN <<"A">>
    ELSE IF has(t, "mux2") THEN <<"A0", "A1", "S">>
    ELSE IF has(t, "mux4") THEN <<"A0", "A1", "A2", "A3", "S0", "S1">>
    ELSE IF has(t, "dff") \/ has(t, "dlatch") THEN <<"D">>
    ELSE <<>>

\* heuristic_tie_selection of parse_lib.py; the tests after the complex gates
\* (xor, inverters and buffers, default) all return LO
heuristic_tie_selection(t) ==
    IF \E g \in {"and2", "and3", "and4"} : has(t, g) THEN "HI"
    ELSE IF \E g \in {"nand2", "nand3", "nand4"} : has(t, g) THEN "LO"
    ELSE IF \E g \in {"or2", "or3", "or4"} : has(t, g) THEN "LO"
    ELSE IF \E g \in {"nor2", "nor3", "nor4"} : has(t, g) THEN "HI"
    ELSE IF has(t, "aoi") \/ (has(t, "o") /\ has(t, "a")) THEN "LO"
    ELSE IF has(t, "oai") \/ (has(t, "a") /\ has(t, "o")) THEN "HI"
    ELSE "LO"

\* determine_tie_from_state of parse_lib.py: a "when" condition as its terms,
\* each a signal and whether it is negated; the summary and the per-signal ties
determine_tie_from_state(terms) ==
    LET signals == {terms[i].signal : i \in 1..Len(terms)}
        last(sig) == SetMax({i \in 1..Len(terms) : terms[i].signal = sig})
        tie_states == [sig \in signals |-> IF terms[last(sig)].negated THEN "LO" ELSE "HI"]
        lo_count == Cardinality({sig \in signals : tie_states[sig] = "LO"})
    IN [summary |-> IF lo_count = Cardinality(signals) THEN "LO"
                    ELSE IF lo_count = 0 THEN "HI" ELSE "MIXED",
        tie_states |-> tie_states]

\* parse_liberty_leakage: per cell of the library its minimum-leakage state; a
\* cell without leakage_power groups keeps an entry without ties
parse_liberty_leakage(min_states) ==
    [t \in DOMAIN min_states |->
        IF min_states[t] = <<>> THEN [leakage_states |-> 0]
        ELSE LET d == determine_tie_from_state(min_states[t])
             IN [leakage_states |-> Len(min_states[t]), min_state |-> min_states[t],
                 optimal_tie |-> d.summary, input_ties |-> d.tie_states]]

\* get_optimal_tie_for_cell of parse_lib.py
get_optimal_tie_for_cell(t, leakage_db) ==
    IF t \in DOMAIN leakage_db
    THEN LET optimal == IF "optimal_tie" \in DOMAIN leakage_db[t]
                        THEN leakage_db[t].optimal_tie ELSE "LO"
         IN IF optimal = "MIXED" THEN heuristic_tie_selection(t) ELSE optimal
    ELSE heuristic_tie_selection(t)

\* cell_data.get("input_ties", {})
input_ties_of(cell_data) ==
    IF "input_ties" \in DOMAIN cell_data THEN cell_data.input_ties ELSE EmptyDict

\* get_input_tie_states: the per-input ties of the library, else one summary
get_input_tie_states(t, leakage_db) ==
    IF t \in DOMAIN leakage_db /\ DOMAIN input_ties_of(leakage_db[t]) # {}
    THEN input_ties_of(leakage_db[t])
    ELSE Put(EmptyDict, "__summary__", get_optimal_tie_for_cell(t, leakage_db))

\* load_placement_mapping of a .map file: logical instance -> fabric cell, the
\* later line winning when two lines name the same instance (UNUSED included)
load_placement_mapping(file) ==
    [m \in {file.line[s].mapped : s \in DOMAIN file.line} |->
        LET at == {i \in 1..Len(file.order) : file.line[file.order[i]].mapped = m}
        IN file.order[SetMax(at)]]

\* the tiles of the fabric, in the order of cells_by_tile
RECURSIVE tile_order(_)
tile_order(fabric) ==
    IF fabric = <<>> THEN <<>>
    ELSE LET rest == tile_order(SelectSeq(Tail(fabric), LAMBDA c : c.tile # Head(fabric).tile))
         IN <<Head(fabric).tile>> \o rest

tile_cells(fabric, tile_key) == SelectSeq(fabric, LAMBDA c : c.tile = tile_key)

\* a variant of identify_unused_cells without the test for used cells
identify_unused_cells_all(db, fabric, placement_map) ==
    LET unused(tile_key) ==
            SelectSeq(tile_cells(fabric, tile_key),
                      LAMBDA c : ~is_macro(c.cell_type) /\ ~is_infrastructure(c.cell_type))
        keys == SelectSeq(tile_order(fabric), LAMBDA t : unused(t) # <<>>)
    IN [order |-> keys, cells |-> [t \in Range(keys) |-> unused(t)]]

\* identify_unused_cells: per tile, the cells that are no macro, no
\* infrastructure, not a value of the placement map and not a cell of the netlist
identify_unused_cells(db, fabric, placement_map) ==
    LET used_fabric_cells == {placement_map[k] : k \in DOMAIN placement_map}
        unused(tile_key) ==
            SelectSeq(tile_cells(fabric, tile_key),
                      LAMBDA c : /\ ~is_macro(c.cell_type)
                                 /\ ~is_infrastructure(c.cell_type)
                                 /\ c.name \notin used_fabric_cells
                                 /\ c.name \notin DOMAIN db.cells)
        keys == SelectSeq(tile_order(fabric), LAMBDA t : unused(t) # <<>>)
    IN [order |-> keys, cells |-> [t \in Range(keys) |-> unused(t)]]

MaxTiesPerTile == 1

RECURSIVE claim_tiles(_, _, _, _, _, _)
claim_tiles(fabric, keys, n_tiles, unavailable_cells, ties_claimed, tie_cells) ==
    IF keys = <<>> \/ ties_claimed >= MaxTiesPerTile * n_tiles THEN tie_cells
    ELSE LET conbs == SelectSeq(tile_cells(fabric, Head(keys)),
                                LAMBDA c : /\ has(c.cell_type, "conb_1")
                                           /\ c.name \notin unavailable_cells)
         IN IF conbs = <<>>
            THEN claim_tiles(fabric, Tail(keys), n_tiles, unavailable_cells,
                             ties_claimed, tie_cells)
            ELSE claim_tiles(fabric, Tail(keys), n_tiles, unavailable_cells,
                             ties_claimed + 1,
                             [order |-> Append(tie_cells.order, Head(keys)),
                              cell |-> Put(tie_cells.cell, Head(keys), conbs[1].name)])

\* claim_tie_cells: for each tile with unused cells, its first conb_1 that is
\* neither in the netlist nor placed; the one cell serves both HI and LO
claim_tie_cells(fabric, unused_by_tile, db, placement_map) ==
    claim_tiles(fabric, unused_by_tile.order, Len(unused_by_tile.order),
                (DOMAIN db.cells) \cup {placement_map[k] : k \in DOMAIN placement_map},
                0, [order |-> <<>>, cell |-> EmptyDict])

\* get_new_net_id with max_net_id stuck at its first value
get_new_net_id_stale(max_net_id) == max_net_id

\* get_new_net_id: max_net_id += 1; return max_net_id
get_new_net_id(max_net_id) == max_net_id + 1

\* max over the net ids, 0 for an empty DB
max_net_id_of(db) == IF DOMAIN db.nets = {} THEN 0 ELSE SetMax(DOMAIN db.nets)

\* cells[name] = {type, pins: {}} with cells_by_type.setdefault(type, []).append(name)
add_cell(db, name, type) ==
    [db EXCEPT !.cells = Put(@, name, [type |-> type, pins |-> EmptyDict]),
               !.cell_order = IF name \in DOMAIN db.cells THEN @ ELSE Append(@, name),
               !.cells_by_type = Put(@, type, IF type \in DOMAIN @ THEN Append(@[type], name)
                                              ELSE <<name>>)]

\* nets[net_id] = {name, connections: [(cell, pin)]} and the pin of the cell set
add_tie_net(db, net_id, net_name, cell, pin) ==
    [db EXCEPT !.cells[cell].pins = Put(@, pin, net_id),
               !.nets = Put(@, net_id, [name |-> net_name,
                                        connections |-> << <<cell, pin>> >>]),
               !.net_order = IF net_id \in DOMAIN db.nets THEN @ ELSE Append(@, net_id)]

RECURSIVE add_tie_cells(_, _, _)
\* the first loop of add_tie_connections: per tile the conb_1 cell, its HI net
\* and its LO net; r holds db, max_net_id, tie_nets and the modification count
add_tie_cells(r, tie_cells, keys) ==
    IF keys = <<>> THEN r
    ELSE LET tile_key == Head(keys)
             tie_cell_name == tie_cells.cell[tile_key]
             db1 == IF tie_cell_name \in DOMAIN r.db.cells THEN r.db
                    ELSE add_cell(r.db, tie_cell_name, CONB)
             hi_net_id == get_new_net_id(r.max_net_id)
             db2 == add_tie_net(db1, hi_net_id, "tie_hi_" \o tile_key, tie_cell_name, "HI")
             lo_net_id == get_new_net_id(hi_net_id)
             db3 == add_tie_net(db2, lo_net_id, "tie_lo_" \o tile_key, tie_cell_name, "LO")
         IN add_tie_cells([db |-> db3, max_net_id |-> lo_net_id,
                           tie_nets |-> Put(r.tie_nets, tile_key,
                                            [HI |-> hi_net_id, LO |-> lo_net_id]),
                           modifications |-> r.modifications + 2],
                          tie_cells, Tail(keys))

\* the tie state of one pin: its own entry, else the summary, else LO
pin_tie_of(input_tie_states, pin) ==
    IF pin \in DOMAIN input_tie_states THEN input_tie_states[pin]
    ELSE IF "__summary__" \in DOMAIN input_tie_states THEN input_tie_states["__summary__"]
    ELSE "LO"

RECURSIVE tie_pins(_, _, _, _, _)
\* every input pin of the new cell is put on the HI or the LO net of its tile
tie_pins(db, cell_name, input_pins, input_tie_states, tile_tie_nets) ==
    IF input_pins = <<>> THEN db
    ELSE LET pin == Head(input_pins)
             tie_net == tile_tie_nets[pin_tie_of(input_tie_states, pin)]
             db1 == [db EXCEPT !.cells[cell_name].pins = Put(@, pin, tie_net),
                               !.nets[tie_net].connections = Append(@, <<cell_name, pin>>)]
         IN tie_pins(db1, cell_name, Tail(input_pins), input_tie_states, tile_tie_nets)

\* how many pins of the list go to the net of state tie
count_ties(input_pins, input_tie_states, tie) ==
    Cardinality({i \in 1..Len(input_pins) : pin_tie_of(input_tie_states, input_pins[i]) = tie})

RECURSIVE tie_unused_cells(_, _, _, _, _)
\* the loop over the unused cells of one tile; r holds db, warnings and the
\* counters of power_stats (the savings percentages are left out)
tie_unused_cells(r, unused_cells, tie_cell_name, tile_tie_nets, leakage_db) ==
    IF unused_cells = <<>> THEN r
    ELSE LET cell == Head(unused_cells)
             input_pins == get_cell_input_pins(cell.cell_type)
             ties == get_input_tie_states(cell.cell_type, leakage_db)
             hi == count_ties(input_pins, ties, "HI")
             lo == Len(input_pins) - hi
             r1 == IF cell.name = tie_cell_name THEN r
                   ELSE IF is_macro(cell.cell_type) \/ is_infrastructure(cell.cell_type) THEN r
                   ELSE IF input_pins = <<>> THEN [r EXCEPT !.warnings = @ + 1]
                   ELSE IF cell.name \in DOMAIN r.db.cells THEN r
                   ELSE [r EXCEPT
                           !.db = tie_pins(add_cell(r.db, cell.name, cell.cell_type),
                                           cell.name, input_pins, ties, tile_tie_nets),
                           !.power_stats.total_cells_tied = @ + 1,
                           !.power_stats.total_pins_tied = @ + Len(input_pins),
                           !.power_stats.tied_to_hi = @ + hi,
                           !.power_stats.tied_to_lo = @ + lo,
                           !.power_stats.tied_to_mixed =
                               IF hi > 0 /\ lo > 0 THEN @ + 1 ELSE @]
         IN tie_unused_cells(r1, Tail(unused_cells), tie_cell_name, tile_tie_nets, leakage_db)

RECURSIVE tie_tiles(_, _, _, _, _, _)
\* the second loop of add_tie_connections: tiles without a tie cell are passed over
tie_tiles(r, keys, unused_by_tile, tie_cells, tie_nets, leakage_db) ==
    IF keys = <<>> THEN r
    ELSE LET tile_key == Head(keys)
             r1 == IF tile_key \notin DOMAIN tie_cells.cell THEN r
                   ELSE tie_unused_cells(r, unused_by_tile.cells[tile_key],
                                         tie_cells.cell[tile_key], tie_nets[tile_key],
                                         leakage_db)
         IN tie_tiles(r1, Tail(keys), unused_by_tile, tie_cells, tie_nets, leakage_db)

\* add_tie_connections: the updated DB with its meta entries
add_tie_connections(db, leakage_db, unused_by_tile, tie_cells) ==
    LET r1 == add_tie_cells([db |-> db, max_net_id |-> max_net_id_of(db),
                             tie_nets |-> EmptyDict, modifications |-> 0],
                            tie_cells, tie_cells.order)
        r2 == tie_tiles([db |-> r1.db, warnings |-> 0,
                         power_stats |-> [total_cells_tied |-> 0, total_pins_tied |-> 0,
                                          tied_to_hi |-> 0, tied_to_lo |-> 0,
                                          tied_to_mixed |-> 0]],
                        unused_by_tile.order, unused_by_tile, tie_cells, r1.tie_nets,
                        leakage_db)
    IN [r2.db EXCEPT !.meta = [eco_modifications |-> r1.modifications,
                               eco_warnings |-> r2.warnings,
                               power_stats |-> r2.power_stats]]

\* run_power_down_eco: unused cells, tie cells, then the netlist change
run_power_down_eco(db, fabric, leakage_db, placement_map) ==
    LET unused_by_tile == identify_unused_cells(db, fabric, placement_map)
        tie_cells == claim_tie_cells(fabric, unused_by_tile, db, placement_map)
    IN [unused_by_tile |-> unused_by_tile, tie_cells |-> tie_cells,
        db |-> add_tie_connections(db, leakage_db, unused_by_tile, tie_cells)]

-----------------------------------------------------------------------------
(* eco_generator.py: placement map, clock tree synthesis, then the tie-off *)

\* how many times the clock tree synthesis is run on its own output
CtsRuns == 2

\* how many times the ECO is run on its own output
EcoRuns == 2

\* the fabric: tile T0 with the logic, tile T1 with cells no design uses
FabricFlow(n_buf, inv, conb) ==
    <<Site("T0_DFF_0", "T0", DFF, 2, 0), Site("T0_DFF_1", "T0", DFF, 2, 4),
      Site("T0_DFF_2", "T0", DFF, 6, 0), Site("T0_DFF_3", "T0", DFF, 6, 4),
      Site("T0_DFF_4", "T0", DFF, 4, 2),
      Site("T0_NAND_0", "T0", NAND, 0, 2), Site("T0_NAND_1", "T0", NAND, 4, 0)>>
    \o (IF n_buf >= 1 THEN <<Site("T0_BUF_0", "T0", BUF, 3, 2)>> ELSE <<>>)
    \o (IF n_buf >= 2 THEN <<Site("T0_BUF_1", "T0", BUF, 5, 3)>> ELSE <<>>)
    \o (IF conb >= 1 THEN <<Site("T0_CONB_0", "T0", CONB, 0, 0)>> ELSE <<>>)
    \o <<Site("T1_OAI_0", "T1", OAI, 8, 0)>>
    \o (IF inv THEN <<Site("T1_INV_0", "T1", INV, 8, 2)>> ELSE <<>>)
    \o (IF conb >= 2 THEN <<Site("T1_CONB_0", "T1", CONB, 8, 4)>> ELSE <<>>)
    \o (IF conb >= 3 THEN <<Site("T1_CONB_1", "T1", CONB, 8, 6)>> ELSE <<>>)

FabricsFlow == {FabricFlow(n, i, c) : n \in 0..2, i \in BOOLEAN, c \in 0..3}

PinsFlow == <<[name |-> "clk", x_um |-> 0, y_um |-> 3], [name |-> "in1", x_um |-> 0, y_um |-> 1],
              [name |-> "out1", x_um |-> 9, y_um |-> 1]>>

PortsFlow == <<Port("clk", "input", <<2>>), Port("in1", "input", <<3>>),
               Port("out1", "output", <<4>>)>>

\* two flip-flops and a gate; the clock pin is named ck; F1 may be clocked by the
\* gate, and the gate may have an input on the clock net
DesignClk(ck, f1_gated, u0_on_clk) ==
    [ports |-> PortsFlow,
     cells |-> <<Cell("U0", NAND, <<Conn("A", <<3>>),
                                    Conn("B", <<IF u0_on_clk THEN 2 ELSE 3>>),
                                    Conn("Y", <<5>>)>>),
                 Cell("F0", DFF, <<Conn("D", <<5>>), Conn("Q", <<4>>), Conn(ck, <<2>>)>>),
                 Cell("F1", DFF, <<Conn("D", <<5>>), Conn("Q", <<6>>),
                                   Conn(ck, <<IF f1_gated THEN 5 ELSE 2>>)>>)>>]

\* five flip-flops on one clock, and a gate that shares no net with any node
DesignWide(ck) ==
    [ports |-> PortsFlow,
     cells |-> <<Cell("F0", DFF, <<Conn("D", <<3>>), Conn("Q", <<4>>), Conn(ck, <<2>>)>>),
                 Cell("F1", DFF, <<Conn("D", <<3>>), Conn("Q", <<6>>), Conn(ck, <<2>>)>>),
                 Cell("F2", DFF, <<Conn("D", <<3>>), Conn("Q", <<7>>), Conn(ck, <<2>>)>>),
                 Cell("F3", DFF, <<Conn("D", <<3>>), Conn("Q", <<8>>), Conn(ck, <<2>>)>>),
                 Cell("F4", DFF, <<Conn("D", <<3>>), Conn("Q", <<9>>), Conn(ck, <<2>>)>>),
                 Cell("U2", NAND, <<Conn("A", <<10>>), Conn("B", <<11>>)>>)>>]

DesignsFlow ==
    {DesignClk(ck, g, u) : ck \in {"C", "CLK"}, g \in BOOLEAN, u \in BOOLEAN}
    \cup {DesignWide(ck) : ck \in {"C", "CLK"}}

\* the leakage database: empty, or with per-input ties for the NAND
LeakageDbs ==
    {EmptyDict,
     Put(EmptyDict, NAND,
         [input_ties |-> Put(Put(EmptyDict, "A", "HI"), "B", "LO"),
          optimal_tie |-> "MIXED"])}

NoFile == [ports |-> <<>>, port_xy |-> EmptyDict, order |-> <<>>, line |-> EmptyDict]

InitFlow ==
    /\ pc = "parse"
    /\ design_json \in DesignsFlow
    /\ config = DefaultConfig
    /\ viz = NoViz
    /\ def_out = NoDef
    /\ sites \in FabricsFlow
    /\ pins = PinsFlow
    /\ logical_db = EmptyDb
    /\ netlist_graph = [nodes |-> {}, edges |-> EmptyDict]
    /\ placement = EmptyDict
    /\ seed_cells = <<>>
    /\ remaining_cells = {}
    /\ fabric_to_logical_map = EmptyDict
    /\ sa = NoSA
    /\ rng = 0
    /\ runs = <<>>
    /\ \E full \in BOOLEAN :
         cts = [full_map |-> full, file |-> NoFile, clock_net |-> "", clock_net_id |-> NoNet,
                sinks |-> <<>>, resources |-> <<>>, clock_tree |-> NoTree, runs |-> 0,
                db_before |-> EmptyDb]
    /\ \E l \in LeakageDbs :
         eco = [leakage_db |-> l, placement_map |-> EmptyDict,
                unused_by_tile |-> [order |-> <<>>, cells |-> EmptyDict],
                tie_cells |-> [order |-> <<>>, cell |-> EmptyDict],
                runs |-> 0, db_before |-> EmptyDb]

\* the placement map of the greedy placement is written
placer_write_map ==
    /\ pc = "placed"
    /\ cts' = [cts EXCEPT !.file = IF cts.full_map THEN write_complete_map(placement, sites)
                                   ELSE write_map_file(placement)]
    /\ pc' = "mapped"
    /\ UNCHANGED <<sites, pins, logical_db, netlist_graph, placement, seed_cells,
                   remaining_cells, fabric_to_logical_map, design_json, sa, rng, runs, eco,
                   config, viz, def_out>>

\* HTreeCTS on the map: find_clock_net, find_sinks, find_resources
cts_find ==
    /\ pc = "mapped"
    /\ LET c == find_clock_net(cts.file.ports, logical_db)
       IN cts' = [cts EXCEPT !.clock_net = c.clock_net, !.clock_net_id = c.clock_net_id,
                             !.sinks = find_sinks(cts.file),
                             !.resources = find_resources(cts.file, sites),
                             !.clock_tree = NoTree,
                             !.db_before = logical_db]
    /\ pc' = "cts_found"
    /\ UNCHANGED <<sites, pins, logical_db, netlist_graph, placement, seed_cells,
                   remaining_cells, fabric_to_logical_map, design_json, sa, rng, runs, eco,
                   config, viz, def_out>>

cts_build ==
    /\ pc = "cts_found"
    /\ LET r == build_clock_tree(cts.sinks, cts.resources)
       IN cts' = [cts EXCEPT !.clock_tree = r.node, !.resources = r.resources]
    /\ pc' = "cts_built"
    /\ UNCHANGED <<sites, pins, logical_db, netlist_graph, placement, seed_cells,
                   remaining_cells, fabric_to_logical_map, design_json, sa, rng, runs, eco,
                   config, viz, def_out>>

cts_update ==
    /\ pc = "cts_built"
    /\ LET r == update_logical_db_and_graph(logical_db, netlist_graph, cts.clock_tree,
                                            cts.clock_net, cts.clock_net_id)
       IN /\ logical_db' = r.db
          /\ netlist_graph' = r.G
    /\ pc' = "cts_updated"
    /\ UNCHANGED <<sites, pins, placement, seed_cells, remaining_cells,
                   fabric_to_logical_map, design_json, sa, rng, runs, cts, eco,
                   config, viz, def_out>>

cts_write ==
    /\ pc = "cts_updated"
    /\ cts' = [cts EXCEPT !.file = write_placement(cts.file, cts.resources),
                          !.runs = @ + 1]
    /\ pc' = "cts_written"
    /\ UNCHANGED <<sites, pins, logical_db, netlist_graph, placement, seed_cells,
                   remaining_cells, fabric_to_logical_map, design_json, sa, rng, runs, eco,
                   config, viz, def_out>>

\* the flow is started again on the map and the DB it has produced
cts_again ==
    /\ pc = "cts_written"
    /\ cts.runs < CtsRuns
    /\ pc' = "mapped"
    /\ UNCHANGED <<sites, pins, logical_db, netlist_graph, placement, seed_cells,
                   remaining_cells, fabric_to_logical_map, design_json, sa, rng, runs,
                   cts, eco,
                   config, viz, def_out>>

\* load_placement_mapping of the CTS map, then run_power_down_eco
eco_run ==
    /\ pc = "cts_written"
    /\ LET placement_map == load_placement_mapping(cts.file)
           r == run_power_down_eco(logical_db, sites, eco.leakage_db, placement_map)
       IN /\ eco' = [eco EXCEPT !.placement_map = placement_map,
                                !.unused_by_tile = r.unused_by_tile,
                                !.tie_cells = r.tie_cells,
                                !.runs = 1,
                                !.db_before = logical_db]
          /\ logical_db' = r.db
    /\ pc' = "eco_done"
    /\ UNCHANGED <<sites, pins, netlist_graph, placement, seed_cells, remaining_cells,
                   fabric_to_logical_map, design_json, sa, rng, runs, cts,
                   config, viz, def_out>>

\* run_power_down_eco once more, on the DB it returned, with the same fabric
\* and the same placement map
eco_again ==
    /\ pc = "eco_done"
    /\ eco.runs < EcoRuns
    /\ LET r == run_power_down_eco(logical_db, sites, eco.leakage_db, eco.placement_map)
       IN /\ eco' = [eco EXCEPT !.unused_by_tile = r.unused_by_tile,
                                !.tie_cells = r.tie_cells,
                                !.runs = @ + 1,
                                !.db_before = logical_db]
          /\ logical_db' = r.db
    /\ pc' = "eco_done"
    /\ UNCHANGED <<sites, pins, netlist_graph, placement, seed_cells, remaining_cells,
                   fabric_to_logical_map, design_json, sa, rng, runs, cts,
                   config, viz, def_out>>

NextFlow ==
    \/ parse_design
    \/ initial_placement_begin
    \/ initial_placement_seed
    \/ initial_placement_grow
    \/ initial_placement_fallback
    \/ initial_placement_return
    \/ placer_write_map
    \/ cts_find
    \/ cts_build
    \/ cts_update
    \/ cts_write
    \/ cts_again
    \/ eco_run
    \/ eco_again

SpecFlow == InitFlow /\ [][NextFlow]_vars

-----------------------------------------------------------------------------
(* placer.py: initial_placement on fabrics of every capacity, called twice *)

\* how many times initial_placement is called on the one fabric DB object
GreedyCalls == 2

MaxNandSites == 2
MaxDffSites == 5

\* a fabric with the first n_nand NAND sites and the first n_dff DFF sites
FabricGreedy(n_nand, n_dff) ==
    SelectSeq(FabricFlow(0, FALSE, 0),
              LAMBDA c : \/ c.name \in {"T1_OAI_0"}
                         \/ c.name \in {"T0_NAND_0", "T0_NAND_1"}
                            /\ c.name \in Range(SubSeq(<<"T0_NAND_0", "T0_NAND_1">>, 1, n_nand))
                         \/ c.cell_type = DFF
                            /\ c.name \in Range(SubSeq(<<"T0_DFF_0", "T0_DFF_1", "T0_DFF_2",
                                                         "T0_DFF_3", "T0_DFF_4">>, 1, n_dff)))

FabricsGreedy == {FabricGreedy(n, d) : n \in 0..MaxNandSites, d \in 0..MaxDffSites}

\* a flip-flop that drives two gates: after the seed stage both gates have one
\* placed neighbour
DesignFork ==
    [ports |-> PortsFlow,
     cells |-> <<Cell("F0", DFF, <<Conn("D", <<3>>), Conn("Q", <<5>>), Conn("C", <<2>>)>>),
                 Cell("U0", NAND, <<Conn("A", <<5>>), Conn("B", <<5>>), Conn("Y", <<6>>)>>),
                 Cell("U1", NAND, <<Conn("A", <<5>>), Conn("B", <<5>>), Conn("Y", <<7>>)>>)>>]

DesignsGreedy == {DesignChain, DesignLoose, DesignClk("C", FALSE, FALSE),
                  DesignClk("C", TRUE, FALSE), DesignWide("C"), DesignFork}

InitGreedy ==
    /\ pc = "parse"
    /\ design_json \in DesignsGreedy
    /\ config = DefaultConfig
    /\ viz = NoViz
    /\ def_out = NoDef
    /\ sites \in FabricsGreedy
    /\ pins = PinsFlow
    /\ logical_db = EmptyDb
    /\ netlist_graph = [nodes |-> {}, edges |-> EmptyDict]
    /\ placement = EmptyDict
    /\ seed_cells = <<>>
    /\ remaining_cells = {}
    /\ fabric_to_logical_map = EmptyDict
    /\ sa = NoSA
    /\ rng = 0
    /\ runs = <<>>
    /\ cts = EmptyDict
    /\ eco = EmptyDict

\* initial_placement is called again with the same fabric DB object; the
\* placement the first call returned is kept in runs
initial_placement_again ==
    /\ pc = "placed"
    /\ Len(runs) < GreedyCalls - 1
    /\ runs' = Append(runs, placement)
    /\ placement' = EmptyDict
    /\ pc' = "place"
    /\ UNCHANGED <<sites, pins, logical_db, netlist_graph, seed_cells, remaining_cells,
                   fabric_to_logical_map, design_json, sa, rng, cts, eco,
                   config, viz, def_out>>

NextGreedy ==
    \/ parse_design
    \/ initial_placement_begin
    \/ initial_placement_seed
    \/ initial_placement_grow
    \/ initial_placement_fallback
    \/ initial_placement_return
    \/ initial_placement_again

SpecGreedy == InitGreedy /\ [][NextGreedy]_vars

-----------------------------------------------------------------------------
(* Properties of the placement flow *)

Annealing == pc \in {"sa_for", "sa_final", "sa_done", "sa_raised"}
GreedyDone == pc \in {"placed", "sa_start"} \/ Annealing

\* every cell of the map sits on a slot of its own type
type_compatible(pos) ==
    \A c \in (DOMAIN logical_db.cells) \cap (DOMAIN pos) :
        LET i == get_fabric_slot_at_position(sites, pos[c])
        IN i # 0 /\ sites[i].cell_type = logical_db.cells[c].type

C1_GreedyTypes ==
    GreedyDone => \A c \in DOMAIN logical_db.cells :
                     placement[c].cell_type = logical_db.cells[c].type

\* C2: no fabric site holds two distinct instances, in the placement returned by
\* initial_placement and in the current placement of the annealer at any time.
C2_SiteUniqueness ==
    /\ GreedyDone => \A c1, c2 \in DOMAIN logical_db.cells :
                        c1 # c2 => placement[c1].slot # placement[c2].slot
    /\ Annealing => \A c1, c2 \in DOMAIN logical_db.cells :
                        c1 # c2 => sa.current_placement[c1] # sa.current_placement[c2]

\* moves were applied and the current placement was reset by a reheat
C2_Witness ==
    /\ pc = "sa_for"
    /\ sa.reheated
    /\ sa.current_placement # positions_of(placement)
    /\ Cardinality(DOMAIN logical_db.cells) >= 2

\* C8: best_cost at the end of a temperature block is never above the value at
\* the end of the block before (reheats included), and the returned best_cost is
\* at most initial_cost.
C8_BestCostMonotone ==
    /\ Annealing => sa.best_cost <= sa.block_best /\ sa.block_best <= sa.initial_cost
    /\ \A i \in 1..Len(runs) : runs[i].best_cost <= runs[i].initial_cost

\* a run that reheated, improved on the greedy cost and returned
C8_Witness ==
    /\ pc = "sa_done"
    /\ sa.reheated
    /\ sa.blocks > ReheatPatience
    /\ runs[Len(runs)].best_cost < runs[Len(runs)].initial_cost

-----------------------------------------------------------------------------
(* Properties of the clock tree synthesis and of the tie-off *)

\* the (cell, pin) pairs whose pin is on net n, and the port entries of n
pins_on(db, n) ==
    {cp \in (DOMAIN db.cells) \X {"A", "B", "C", "CLK", "D", "Q", "Y", "HI", "LO"} :
        cp[2] \in DOMAIN db.cells[cp[1]].pins /\ db.cells[cp[1]].pins[cp[2]] = n}

ports_on(db, n) ==
    {<<q, "PORT">> : q \in {r \in DOMAIN db.ports.inputs : db.ports.inputs[r] = n}
                          \cup {r \in DOMAIN db.ports.outputs : db.ports.outputs[r] = n}}

net_closure(db) ==
    \A n \in DOMAIN db.nets :
        Range(db.nets[n].connections) = pins_on(db, n) \cup ports_on(db, n)

\* C3: in every state after parsing (so after the CTS update and after the ECO
\* too) the connection list of every net is the set of the pins that are on the
\* net plus the port entries of the net
C3_NetClosure == pc # "parse" => net_closure(logical_db)

CtsUpdated == pc = "cts_updated" /\ cts.clock_tree # NoTree

\* C4 as stated: after the CTS update with a non-empty tree the original clock
\* net has the one connection (clock port, PORT)
C4_ClockNetPortOnly ==
    CtsUpdated =>
        logical_db.nets[cts.clock_net_id].connections = << <<cts.clock_net, "PORT">> >>

\* C4: after the CTS update with a non-empty tree the original clock net has
\* exactly two connections: (clock port, PORT) and pin A of the root buffer
C4_ClockNetPortAndRoot ==
    CtsUpdated =>
        /\ cts.clock_tree.buffer # NoBuffer
        /\ logical_db.nets[cts.clock_net_id].connections =
              << <<cts.clock_net, "PORT">>, <<cts.clock_tree.buffer, "A">> >>

\* a CTS update that took flip-flops off the clock net
C4_Witness ==
    /\ CtsUpdated
    /\ Len(cts.db_before.nets[cts.clock_net_id].connections) > 2
    /\ Len(logical_db.nets[cts.clock_net_id].connections) = 2

RECURSIVE tree_leaves(_)
\* the leaf nodes of a tree
tree_leaves(node) ==
    IF node.leaf THEN {node}
    ELSE UNION {tree_leaves(node.children[i]) : i \in 1..Len(node.children)}

\* C5: after the first CTS update, for every leaf with a buffer and every sink
\* it lists, each pin of the sink that was on the clock net before is on the
\* output net of that buffer
C5_ClockRerouting ==
    (CtsUpdated /\ cts.runs = 0) =>
        \A node \in {l \in tree_leaves(cts.clock_tree) : l.buffer # NoBuffer} :
            \A i \in 1..Len(node.sink_logical_names) :
                LET sink == node.sink_logical_names[i]
                    before == cts.db_before.cells[sink].pins
                    after == logical_db.cells[sink].pins
                IN \A p \in {q \in DOMAIN before : before[q] = cts.clock_net_id} :
                      /\ p \in DOMAIN after
                      /\ after[p] = logical_db.cells[node.buffer].pins["Y"]

\* C10: the second CTS update claims no resource and leaves the logical DB and
\* the netlist graph as the first run left them
C10_CtsIdempotent ==
    (pc = "cts_updated" /\ cts.runs = 1) =>
        /\ \A i \in 1..Len(cts.resources) : ~cts.resources[i].claimed
        /\ logical_db = cts.db_before

\* a second CTS update that found resources and built a tree
C10_SecondRun == pc = "cts_updated" /\ cts.runs = 1 /\ cts.clock_tree # NoTree

\* C6: add_tie_connections changes no pin of a cell that was in the DB before
\* it and no connection list of a net that was in the DB before it; what it adds
\* are cells and nets the DB did not have
C6_EcoSafety ==
    pc = "eco_done" =>
        /\ \A c \in DOMAIN eco.db_before.cells :
              /\ c \in DOMAIN logical_db.cells
              /\ logical_db.cells[c] = eco.db_before.cells[c]
        /\ \A n \in DOMAIN eco.db_before.nets :
              /\ n \in DOMAIN logical_db.nets
              /\ logical_db.nets[n] = eco.db_before.nets[n]

\* an ECO that added tie nets and tied the inputs of an unused cell
C6_Witness ==
    /\ pc = "eco_done"
    /\ eco.tie_cells.order # <<>>
    /\ logical_db.meta.power_stats.total_pins_tied > 0
    /\ (DOMAIN logical_db.nets) \ (DOMAIN eco.db_before.nets) # {}

\* the input pins of a cell type in the cell library
library_inputs(t) ==
    CASE t = NAND -> {"A", "B"}
      [] t = BUF  -> {"A"}
      [] t = INV  -> {"A"}
      [] t = OAI  -> {"A1", "A2", "B1"}
      [] OTHER    -> {}

\* pin p of cell c is on a net of the DB
driven(db, c, p) ==
    /\ c \in DOMAIN db.cells
    /\ p \in DOMAIN db.cells[c].pins
    /\ db.cells[c].pins[p] \in DOMAIN db.nets

\* the sites no design cell is on and that are neither macro nor infrastructure
spare_sites ==
    {i \in 1..Len(sites) : /\ sites[i].placed = NoCell
                           /\ ~is_macro(sites[i].cell_type)
                           /\ ~is_infrastructure(sites[i].cell_type)}

\* C7: after one CTS run and the ECO every input pin of a placed design cell
\* and of a spare logic site (a CTS buffer is the cell of such a site) is on a
\* net of the logical DB
C7_NoDanglingInputs ==
    (pc = "eco_done" /\ cts.runs = 1) =>
        /\ \A i \in 1..Len(design_json.cells) :
              \A k \in 1..Len(design_json.cells[i].connections) :
                  design_json.cells[i].connections[k].pin \notin {"Y", "Q"} =>
                      driven(logical_db, design_json.cells[i].name,
                             design_json.cells[i].connections[k].pin)
        /\ \A i \in spare_sites :
              \A p \in library_inputs(sites[i].cell_type) :
                  driven(logical_db, sites[i].name, p)

\* C11: the second run of the ECO claims no tie cell and returns the logical DB
\* of the first run, cells, nets and tie statistics included
C11_EcoIdempotent ==
    (pc = "eco_done" /\ eco.runs = 2) =>
        /\ eco.tie_cells.order = <<>>
        /\ logical_db = eco.db_before

-----------------------------------------------------------------------------
(* Properties of initial_placement *)

\* some cell type has more instances in the netlist than the fabric has sites
oversubscribed(db, fabric) ==
    \E t \in DOMAIN db.cells_by_type :
        Len(db.cells_by_type[t]) > Cardinality({i \in 1..Len(fabric) : fabric[i].cell_type = t})

\* the first call has ended, by return or by the ValueError
first_call_returned == pc = "placed" /\ runs = <<>>
first_call_raised == pc = "place_failed" /\ runs = <<>>

\* the first call raises exactly when a type is oversubscribed, and places
\* every cell otherwise
C12_FailsIffOversubscribed ==
    /\ first_call_raised => oversubscribed(logical_db, sites)
    /\ first_call_returned =>
          /\ ~oversubscribed(logical_db, sites)
          /\ DOMAIN logical_db.cells \subseteq DOMAIN placement

\* C12: initial_placement on a fresh fabric fails exactly when some cell type
\* has more instances than sites, places every cell otherwise, and when it
\* fails no instance remains bound to a site
C12_GreedyFeasibility ==
    /\ C12_FailsIffOversubscribed
    /\ first_call_raised => \A i \in 1..Len(sites) : sites[i].placed = NoCell

\* C14: no step changes a field of a fabric site
C14_FabricReadOnly == [][sites' = sites]_vars

\* the second call on the same fabric DB object returns what the first returned
C14_SameResultTwice ==
    /\ pc # "place_failed" \/ runs = <<>>
    /\ (pc = "placed" /\ runs # <<>>) => placement = runs[1]

-----------------------------------------------------------------------------
(* build_clock_tree on eight flip-flops around a square (cts_htree.py) *)

SquareSide == 100
GridPitch == 25
GridSide == 4
GridOffsets == {0, 10, 25}

\* the four corners and the four edge midpoints of the square, counter-clockwise
SquarePoints ==
    <<<<0, 0>>, <<SquareSide \div 2, 0>>, <<SquareSide, 0>>, <<SquareSide, SquareSide \div 2>>,
      <<SquareSide, SquareSide>>, <<SquareSide \div 2, SquareSide>>, <<0, SquareSide>>,
      <<0, SquareSide \div 2>>>>

\* the sinks as find_sinks returns them, the list starting at point first and
\* running counter-clockwise or clockwise
SquareSinks(first, ccw) ==
    [i \in 1..Len(SquarePoints) |->
        LET k == IF ccw THEN ((first + i - 2) % Len(SquarePoints)) + 1
                 ELSE ((first - i + Len(SquarePoints)) % Len(SquarePoints)) + 1
        IN [id |-> "T0_DFF_" \o ToString(k), type |-> DFF, x |-> SquarePoints[k][1],
            y |-> SquarePoints[k][2], mapped |-> "F" \o ToString(k)]]

\* the resources as find_resources returns them: the first n_free buffers of a
\* grid of GridSide x GridSide buffer sites, row by row
GridBuffers(ox, oy, n_free) ==
    [k \in 1..n_free |->
        [name |-> "T0_BUF_" \o ToString(k), type |-> BUF,
         x |-> ox + GridPitch * ((k - 1) % GridSide),
         y |-> oy + GridPitch * ((k - 1) \div GridSide),
         claimed |-> FALSE, is_buffer |-> TRUE]]

InitTree ==
    /\ pc = "cts_found"
    /\ design_json = EmptyDict
    /\ config = DefaultConfig
    /\ viz = NoViz
    /\ def_out = NoDef
    /\ sites = <<>>
    /\ pins = <<>>
    /\ logical_db = EmptyDb
    /\ netlist_graph = [nodes |-> {}, edges |-> EmptyDict]
    /\ placement = EmptyDict
    /\ seed_cells = <<>>
    /\ remaining_cells = {}
    /\ fabric_to_logical_map = EmptyDict
    /\ sa = NoSA
    /\ rng = 0
    /\ runs = <<>>
    /\ eco = EmptyDict
    /\ \E first \in 1..Len(SquarePoints), ccw \in BOOLEAN, ox \in GridOffsets, oy \in GridOffsets,
          n_free \in 0..(GridSide * GridSide) :
         cts = [full_map |-> TRUE, file |-> NoFile, clock_net |-> "clk", clock_net_id |-> 2,
                sinks |-> SquareSinks(first, ccw), resources |-> GridBuffers(ox, oy, n_free),
                clock_tree |-> NoTree, runs |-> 0, db_before |-> EmptyDb]

NextTree == cts_build

SpecTree == InitTree /\ [][NextTree]_vars

-----------------------------------------------------------------------------
(* The stages on a netlist without cells *)

\* netlists of ports only, and the netlist with nothing in it
DesignsEmpty == {[ports |-> PortsFlow, cells |-> <<>>], [ports |-> <<>>, cells |-> <<>>]}

InitEmpty ==
    /\ pc = "parse"
    /\ design_json \in DesignsEmpty
    /\ config = DefaultConfig
    /\ viz = NoViz
    /\ def_out = NoDef
    /\ sites \in FabricsFlow
    /\ pins = PinsFlow
    /\ logical_db = EmptyDb
    /\ netlist_graph = [nodes |-> {}, edges |-> EmptyDict]
    /\ placement = EmptyDict
    /\ seed_cells = <<>>
    /\ remaining_cells = {}
    /\ fabric_to_logical_map = EmptyDict
    /\ sa = NoSA
    /\ rng = 0
    /\ runs = <<>>
    /\ \E full \in BOOLEAN :
         cts = [full_map |-> full, file |-> NoFile, clock_net |-> "", clock_net_id |-> NoNet,
                sinks |-> <<>>, resources |-> <<>>, clock_tree |-> NoTree, runs |-> 0,
                db_before |-> EmptyDb]
    /\ \E l \in LeakageDbs :
         eco = [leakage_db |-> l, placement_map |-> EmptyDict,
                unused_by_tile |-> [order |-> <<>>, cells |-> EmptyDict],
                tie_cells |-> [order |-> <<>>, cell |-> EmptyDict],
                runs |-> 0, db_before |-> EmptyDb]

\* the greedy placement is followed by the annealer (optimized.py) or by the
\* map, CTS and ECO; the seed and grow loops have no cell to run on
NextEmpty ==
    \/ parse_design
    \/ initial_placement_begin
    \/ initial_placement_return
    \/ main_build_map
    \/ sa_begin
    \/ sa_refine
    \/ sa_explore
    \/ sa_end_block
    \/ sa_return
    \/ placer_write_map
    \/ cts_find
    \/ cts_build
    \/ cts_update
    \/ cts_write
    \/ cts_again
    \/ eco_run
    \/ eco_again

SpecEmpty == InitEmpty /\ [][NextEmpty]_vars

-----------------------------------------------------------------------------
(* simulated_annealing under configurations with other block lengths *)

MaxMovesPerTemp == 3
MinCap == 3
MaxCap == 5

\* SAConfig objects whose moves_per_temp and max_iterations were set by the caller
ConfigsCap ==
    {[DefaultConfig EXCEPT !.moves_per_temp = m, !.max_iterations = n] :
        m \in 1..MaxMovesPerTemp, n \in MinCap..MaxCap}

InitCap ==
    /\ pc = "parse"
    /\ design_json \in DesignsSA
    /\ config \in ConfigsCap
    /\ viz = NoViz
    /\ def_out = NoDef
    /\ sites = FabricSA
    /\ pins = PinsSA
    /\ logical_db = EmptyDb
    /\ netlist_graph = [nodes |-> {}, edges |-> EmptyDict]
    /\ placement = EmptyDict
    /\ seed_cells = <<>>
    /\ remaining_cells = {}
    /\ fabric_to_logical_map = EmptyDict
    /\ sa = NoSA
    /\ rng = 0
    /\ runs = <<>>
    /\ cts = EmptyDict
    /\ eco = EmptyDict

SpecCap == InitCap /\ [][Next]_vars

-----------------------------------------------------------------------------
(* simulated_annealing run to its end: slow cooling, so that the temperature  *)
(* is still above final_temp when the reheat rule fires and when the          *)
(* iteration cap is reached; each statement of the loop runs to completion    *)
(* in one thread, so a step that can be taken is taken                        *)

SlowCoolNum == 15
SlowCoolDen == 16
SlowMaxIterations == 24
MaxShortCap == 4

\* cooling_rate 15/16 with a cap past the reheat patience
ConfigSlow ==
    [DefaultConfig EXCEPT !.cooling_num = SlowCoolNum, !.cooling_den = SlowCoolDen,
                          !.max_iterations = SlowMaxIterations]

\* short runs of one or two proposals per block
ConfigsShort ==
    {[DefaultConfig EXCEPT !.moves_per_temp = m, !.max_iterations = n] :
        m \in 1..2, n \in MinCap..MaxShortCap}

InitTerm ==
    /\ pc = "parse"
    /\ \/ design_json = DesignLoose /\ config = ConfigSlow
       \/ design_json \in DesignsSA /\ config \in ConfigsShort
    /\ viz = NoViz
    /\ def_out = NoDef
    /\ sites = FabricSA
    /\ pins = PinsSA
    /\ logical_db = EmptyDb
    /\ netlist_graph = [nodes |-> {}, edges |-> EmptyDict]
    /\ placement = EmptyDict
    /\ seed_cells = <<>>
    /\ remaining_cells = {}
    /\ fabric_to_logical_map = EmptyDict
    /\ sa = NoSA
    /\ rng = 0
    /\ runs = <<>>
    /\ cts = EmptyDict
    /\ eco = EmptyDict

SpecTerm == InitTerm /\ [][Next]_vars /\ WF_vars(Next)

-----------------------------------------------------------------------------
(* The flow with leakage DBs parsed from Liberty libraries of several shapes *)

\* a term of a "when" condition: A is Term("A", FALSE), !A is Term("A", TRUE)
Term(signal, negated) == [signal |-> signal, negated |-> negated]

\* per library, the minimum-leakage "when" condition of each cell it describes
\* (the empty condition: a cell without leakage_power groups)
LibrariesTie ==
    {EmptyDict,
     Put(EmptyDict, NAND, <<Term("A", FALSE), Term("B", TRUE)>>),
     Put(EmptyDict, NAND, <<Term("A", FALSE)>>),
     Put(Put(EmptyDict, NAND, <<Term("A", FALSE), Term("B", FALSE)>>),
         BUF, <<Term("A", TRUE)>>),
     Put(Put(EmptyDict, NAND, <<>>), INV, <<Term("A", FALSE)>>)}

InitTie ==
    /\ pc = "parse"
    /\ design_json \in {DesignClk("C", FALSE, FALSE), DesignClk("C", TRUE, FALSE),
                        DesignWide("C")}
    /\ config = DefaultConfig
    /\ viz = NoViz
    /\ def_out = NoDef
    /\ sites \in FabricsFlow
    /\ pins = PinsFlow
    /\ logical_db = EmptyDb
    /\ netlist_graph = [nodes |-> {}, edges |-> EmptyDict]
    /\ placement = EmptyDict
    /\ seed_cells = <<>>
    /\ remaining_cells = {}
    /\ fabric_to_logical_map = EmptyDict
    /\ sa = NoSA
    /\ rng = 0
    /\ runs = <<>>
    /\ \E full \in BOOLEAN :
         cts = [full_map |-> full, file |-> NoFile, clock_net |-> "", clock_net_id |-> NoNet,
                sinks |-> <<>>, resources |-> <<>>, clock_tree |-> NoTree, runs |-> 0,
                db_before |-> EmptyDb]
    /\ \E lib \in LibrariesTie :
         eco = [leakage_db |-> parse_liberty_leakage(lib), placement_map |-> EmptyDict,
                unused_by_tile |-> [order |-> <<>>, cells |-> EmptyDict],
                tie_cells |-> [order |-> <<>>, cell |-> EmptyDict],
                runs |-> 0, db_before |-> EmptyDb]

SpecTie == InitTie /\ [][NextFlow]_vars

\* five flip-flops on one clock and a buffer cell, which takes a buffer site
DesignBuf(ck) ==
    [ports |-> PortsFlow,
     cells |-> <<Cell("F0", DFF, <<Conn("D", <<3>>), Conn("Q", <<4>>), Conn(ck, <<2>>)>>),
                 Cell("F1", DFF, <<Conn("D", <<3>>), Conn("Q", <<6>>), Conn(ck, <<2>>)>>),
                 Cell("F2", DFF, <<Conn("D", <<3>>), Conn("Q", <<7>>), Conn(ck, <<2>>)>>),
                 Cell("F3", DFF, <<Conn("D", <<3>>), Conn("Q", <<8>>), Conn(ck, <<2>>)>>),
                 Cell("F4", DFF, <<Conn("D", <<3>>), Conn("Q", <<9>>), Conn(ck, <<2>>)>>),
                 Cell("B0", BUF, <<Conn("A", <<3>>), Conn("X", <<10>>)>>)>>]

\* two flip-flops, a gate and a tie cell of the design, which takes a conb site
DesignConb(ck) ==
    [ports |-> PortsFlow,
     cells |-> DesignClk(ck, FALSE, FALSE).cells
               \o <<Cell("K0", CONB, <<Conn("HI", <<7>>), Conn("LO", <<8>>)>>)>>]

\* the fabrics with one more inverter site, first in tile T0 and as near to the
\* middle of the flip-flop sites as the nearest buffer site
FabricsPool == {<<Site("T0_INV_0", "T0", INV, 5, 2)>> \o f : f \in FabricsFlow}

\* the flow on designs with and without a placed buffer
InitPool ==
    /\ pc = "parse"
    /\ design_json \in {DesignBuf("C"), DesignConb("C"), DesignWide("C"),
                        DesignClk("C", TRUE, FALSE)}
    /\ config = DefaultConfig
    /\ viz = NoViz
    /\ def_out = NoDef
    /\ sites \in FabricsPool
    /\ pins = PinsFlow
    /\ logical_db = EmptyDb
    /\ netlist_graph = [nodes |-> {}, edges |-> EmptyDict]
    /\ placement = EmptyDict
    /\ seed_cells = <<>>
    /\ remaining_cells = {}
    /\ fabric_to_logical_map = EmptyDict
    /\ sa = NoSA
    /\ rng = 0
    /\ runs = <<>>
    /\ \E full \in BOOLEAN :
         cts = [full_map |-> full, file |-> NoFile, clock_net |-> "", clock_net_id |-> NoNet,
                sinks |-> <<>>, resources |-> <<>>, clock_tree |-> NoTree, runs |-> 0,
                db_before |-> EmptyDb]
    /\ eco = [leakage_db |-> EmptyDict, placement_map |-> EmptyDict,
              unused_by_tile |-> [order |-> <<>>, cells |-> EmptyDict],
              tie_cells |-> [order |-> <<>>, cell |-> EmptyDict],
              runs |-> 0, db_before |-> EmptyDb]

SpecPool == InitPool /\ [][NextFlow]_vars

-----------------------------------------------------------------------------
(* visualization/pipeline.py: run_all and the exit code of main *)

\* STAGES: name, requires_map, requires_report ("" for None)
STAGES ==
    <<[name |-> "layout",        needs_map |-> FALSE, needs_rpt |-> ""],
      [name |-> "density",       needs_map |-> TRUE,  needs_rpt |-> ""],
      [name |-> "net_length",    needs_map |-> TRUE,  needs_rpt |-> ""],
      [name |-> "congestion",    needs_map |-> FALSE, needs_rpt |-> "congestion.rpt"],
      [name |-> "slack",         needs_map |-> FALSE, needs_rpt |-> "setup_timing.rpt"],
      [name |-> "critical_path", needs_map |-> FALSE, needs_rpt |-> "setup_timing.rpt"],
      [name |-> "cts_tree",      needs_map |-> FALSE, needs_rpt |-> ""]>>

\* the stages before which run_all loads the fabric DB when it has none
LoadsFabric == {"layout", "congestion", "critical_path", "cts_tree"}

\* the stage functions that call load_fabric_db when they are handed None
LoadsFabricItself == {"density"}

\* VizResult(name, ok, skipped=..., missing_input=...)
VizResult(stage, ok, skipped, missing_input) ==
    [stage |-> stage, ok |-> ok, skipped |-> skipped, missing_input |-> missing_input]

\* how a stage function ends: it returns a path, raises FileNotFoundError or
\* MissingDataError, or raises another Exception
StageOutcomes == {"ok", "missing", "error"}

NoExit == -1

\* values of --only and --skip (the empty set for an option not given)
OnlySets == {{}, {"layout"}, {"density", "net_length"}, {"slack", "cts_tree"}}
SkipSets == {{}, {"layout"}, {"layout", "congestion", "critical_path", "cts_tree"}}

InitViz ==
    /\ pc = "viz_run"
    /\ design_json = EmptyDict
    /\ config = DefaultConfig
    /\ def_out = NoDef
    /\ sites = <<>>
    /\ pins = <<>>
    /\ logical_db = EmptyDb
    /\ netlist_graph = [nodes |-> {}, edges |-> EmptyDict]
    /\ placement = EmptyDict
    /\ seed_cells = <<>>
    /\ remaining_cells = {}
    /\ fabric_to_logical_map = EmptyDict
    /\ sa = NoSA
    /\ rng = 0
    /\ runs = <<>>
    /\ cts = EmptyDict
    /\ eco = EmptyDict
    /\ \E only \in OnlySets, skip \in SkipSets, strict \in BOOLEAN, map_exists \in BOOLEAN,
          reports \in {{}, {"congestion.rpt"}, {"congestion.rpt", "setup_timing.rpt"}},
          fabric_files \in BOOLEAN :
         viz = [only |-> only, skip |-> skip, strict |-> strict,
                map_exists |-> map_exists, reports |-> reports,
                fabric_files |-> fabric_files,
                i |-> 1, fabric_db |-> FALSE, results |-> <<>>, exit |-> NoExit]

viz_unchanged ==
    UNCHANGED <<sites, pins, logical_db, netlist_graph, placement, seed_cells,
                remaining_cells, fabric_to_logical_map, design_json, sa, rng, runs, cts, eco,
                config, def_out>>

\* the result of the loop body is appended and the loop goes on
viz_append(result, fabric_db) ==
    /\ viz' = [viz EXCEPT !.results = Append(@, result), !.i = @ + 1, !.fabric_db = fabric_db]
    /\ pc' = "viz_run"

\* load_yaml: sys.exit(1) for a file that is missing or does not parse; the
\* SystemExit is no Exception and leaves run_all and main
viz_system_exit ==
    /\ viz' = [viz EXCEPT !.exit = 1]
    /\ pc' = "viz_exit"

\* one pass of the loop of run_all over STAGES
viz_stage ==
    /\ pc = "viz_run"
    /\ viz.i <= Len(STAGES)
    /\ LET st == STAGES[viz.i]
           load == ~viz.fabric_db /\ st.name \in LoadsFabric
           loaded == viz.fabric_db \/ load
       IN IF viz.only # {} /\ st.name \notin viz.only
          THEN viz_append(VizResult(st.name, FALSE, TRUE, FALSE), viz.fabric_db)
          ELSE IF viz.skip # {} /\ st.name \in viz.skip
          THEN viz_append(VizResult(st.name, FALSE, TRUE, FALSE), viz.fabric_db)
          ELSE IF st.needs_map /\ ~viz.map_exists
          THEN viz_append(VizResult(st.name, FALSE, FALSE, TRUE), viz.fabric_db)
          ELSE IF st.needs_rpt # "" /\ st.needs_rpt \notin viz.reports
          THEN viz_append(VizResult(st.name, FALSE, FALSE, TRUE), viz.fabric_db)
          ELSE IF load /\ ~viz.fabric_files
          THEN viz_system_exit
          ELSE IF ~loaded /\ st.name \in LoadsFabricItself /\ ~viz.fabric_files
          THEN viz_system_exit
          ELSE \E outcome \in StageOutcomes :
                  viz_append(VizResult(st.name, outcome = "ok", FALSE, outcome = "missing"),
                             loaded)
    /\ viz_unchanged

hard_failures(results) ==
    {k \in 1..Len(results) :
        ~results[k].ok /\ ~results[k].skipped /\ ~results[k].missing_input}

soft_failures(results) ==
    {k \in 1..Len(results) :
        ~results[k].ok /\ ~results[k].skipped /\ results[k].missing_input}

\* main after run_all returned: the exit code
viz_main_exit ==
    /\ pc = "viz_run"
    /\ viz.i > Len(STAGES)
    /\ viz' = [viz EXCEPT !.exit =
                  IF hard_failures(viz.results) # {} THEN 1
                  ELSE IF soft_failures(viz.results) # {} /\ viz.strict THEN 1
                  ELSE 0]
    /\ pc' = "viz_exit"
    /\ viz_unchanged

NextViz ==
    \/ viz_stage
    \/ viz_main_exit

SpecViz == InitViz /\ [][NextViz]_vars

-----------------------------------------------------------------------------
(* make_def.py: die area, I/O pins and components of the DEF file *)

\* lengths in microns are kept as integer multiples of 1/UmDen micron
UmDen == 100

\* int(value_um * dbu_per_micron) of a length that is not negative
to_dbu(value, dbu_per_micron) == (value * dbu_per_micron) \div UmDen

\* site dimensions and least pin width used without a technology LEF
SiteWidthDbu == 460
SiteHeightDbu == 2720
MinWidth == 100

\* get_die_area: the whole die, from the origin
get_die_area(die, dbu_per_micron) ==
    [llx |-> 0, lly |-> 0,
     urx |-> to_dbu(die.width_um, dbu_per_micron),
     ury |-> to_dbu(die.height_um, dbu_per_micron)]

\* pin_info_map.get(port_name, {}): the last pin of the list with that name
pin_info(pin_list, port_name) ==
    LET hits == {k \in 1..Len(pin_list) : pin_list[k].name = port_name}
    IN IF hits = {} THEN [name |-> port_name, x_um |-> 0, y_um |-> 0, side |-> "south"]
       ELSE pin_list[SetMax(hits)]

\* extract_io_pins: the input ports, then the output ports
extract_io_pins(ports, pin_list, dbu_per_micron) ==
    [k \in 1..Len(ports) |->
        LET info == pin_info(pin_list, ports[k].name)
        IN [name |-> ports[k].name, net |-> ports[k].net, direction |-> ports[k].direction,
            x |-> to_dbu(info.x_um, dbu_per_micron),
            y |-> to_dbu(info.y_um, dbu_per_micron),
            side |-> info.side]]

\* snap_to_grid
snap_to_grid(x, y, x_grid, y_grid) == <<(x \div x_grid) * x_grid, (y \div y_grid) * y_grid>>

\* extract_components for the cells named after fabric sites
extract_components(cells, units) ==
    [k \in 1..Len(cells) |->
        LET xy == snap_to_grid(to_dbu(cells[k].x, units), to_dbu(cells[k].y, units),
                               SiteWidthDbu, SiteHeightDbu)
        IN [name |-> cells[k].name, x |-> xy[1], y |-> xy[2], status |-> "FIXED"]]

Max2(a, b) == IF a > b THEN a ELSE b

\* the position the PINS section gives a pin: x_coord = pin['x'] // 2
pin_point(pin) == [x |-> pin.x \div 2, y |-> pin.y \div 2]

\* the PINS entry of a pin: the FIXED point and the rectangle, kept in the die
pin_entry(pin, die_area) ==
    LET pt == pin_point(pin)
        h == MinWidth \div 2
        x1 == IF pin.side = "east" THEN pt.x - MinWidth
              ELSE IF pin.side = "west" THEN pt.x ELSE pt.x - h
        x2 == IF pin.side = "east" THEN pt.x
              ELSE IF pin.side = "west" THEN pt.x + MinWidth ELSE pt.x + h
        y1 == IF pin.side = "south" THEN pt.y
              ELSE IF pin.side = "north" THEN pt.y - MinWidth ELSE pt.y - h
        y2 == IF pin.side = "south" THEN pt.y + MinWidth
              ELSE IF pin.side = "north" THEN pt.y ELSE pt.y + h
    IN [name |-> pin.name, direction |-> pin.direction,
        x1 |-> Max2(die_area.llx, x1), x2 |-> Min2(die_area.urx, x2),
        y1 |-> Max2(die_area.lly, y1), y2 |-> Min2(die_area.ury, y2),
        x |-> pt.x, y |-> pt.y]

\* write_def_file: the DIEAREA statement, the COMPONENTS and the PINS
write_def_file(die_area, pin_seq, components) ==
    [diearea |-> die_area,
     components |-> components,
     pins |-> [k \in 1..Len(pin_seq) |-> pin_entry(pin_seq[k], die_area)]]

DbuValues == {1000, 2000}
DieSides == {10000, 12345}
PinOffsets == {0, 1235, 5000}

\* the ports of the logical DB, inputs first
PortsDef ==
    <<[name |-> "clk", net |-> 2, direction |-> "INPUT"],
      [name |-> "in1", net |-> 3, direction |-> "INPUT"],
      [name |-> "out1", net |-> 4, direction |-> "OUTPUT"]>>

\* the pin ring: clk on the south edge, in1 on the west edge, out1 on the east
\* edge when the fabric lists it
PinListDef(width, a, b, with_out) ==
    <<[name |-> "clk", x_um |-> a, y_um |-> 0, side |-> "south"],
      [name |-> "in1", x_um |-> 0, y_um |-> b, side |-> "west"]>>
    \o (IF with_out THEN <<[name |-> "out1", x_um |-> width, y_um |-> b, side |-> "east"]>>
        ELSE <<>>)

CellsDef == <<[name |-> "T0_NAND_0", x |-> 1235, y |-> 544], [name |-> "T0_DFF_0", x |-> 5000, y |-> 816]>>

InitDef ==
    /\ pc = "def_start"
    /\ design_json = EmptyDict
    /\ config = DefaultConfig
    /\ viz = NoViz
    /\ sites = <<>>
    /\ pins = <<>>
    /\ logical_db = EmptyDb
    /\ netlist_graph = [nodes |-> {}, edges |-> EmptyDict]
    /\ placement = EmptyDict
    /\ seed_cells = <<>>
    /\ remaining_cells = {}
    /\ fabric_to_logical_map = EmptyDict
    /\ sa = NoSA
    /\ rng = 0
    /\ runs = <<>>
    /\ cts = EmptyDict
    /\ eco = EmptyDict
    /\ \E dbu \in DbuValues, w \in DieSides, h \in DieSides, a \in PinOffsets, b \in PinOffsets,
          with_out \in BOOLEAN :
         def_out = [dbu_per_micron |-> dbu,
                    die |-> [width_um |-> w, height_um |-> h],
                    pin_list |-> PinListDef(w, a, b, with_out),
                    ports |-> PortsDef, cells |-> CellsDef,
                    die_area |-> EmptyDict, pins |-> <<>>, components |-> <<>>,
                    file |-> EmptyDict]

def_unchanged ==
    UNCHANGED <<sites, pins, logical_db, netlist_graph, placement, seed_cells,
                remaining_cells, fabric_to_logical_map, design_json, sa, rng, runs, cts, eco,
                config, viz>>

def_get_die_area ==
    /\ pc = "def_start"
    /\ def_out' = [def_out EXCEPT !.die_area = get_die_area(def_out.die, def_out.dbu_per_micron)]
    /\ pc' = "def_die"
    /\ def_unchanged

def_extract_io_pins ==
    /\ pc = "def_die"
    /\ def_out' = [def_out EXCEPT !.pins = extract_io_pins(def_out.ports, def_out.pin_list,
                                                           def_out.dbu_per_micron)]
    /\ pc' = "def_pins"
    /\ def_unchanged

def_extract_components ==
    /\ pc = "def_pins"
    /\ def_out' = [def_out EXCEPT !.components = extract_components(def_out.cells,
                                                                    def_out.dbu_per_micron)]
    /\ pc' = "def_components"
    /\ def_unchanged

def_write ==
    /\ pc = "def_components"
    /\ def_out' = [def_out EXCEPT !.file = write_def_file(def_out.die_area, def_out.pins,
                                                          def_out.components)]
    /\ pc' = "def_written"
    /\ def_unchanged

NextDef ==
    \/ def_get_die_area
    \/ def_extract_io_pins
    \/ def_extract_components
    \/ def_write

SpecDef == InitDef /\ [][NextDef]_vars

-----------------------------------------------------------------------------
(* Properties of the fabric records during annealing *)

\* the slot flags, fabric_to_logical_map and the position dict pos describe
\* one binding of cells to sites
maps_consistent(fabric, site_map, pos) ==
    /\ \A i \in 1..Len(fabric) :
          /\ fabric[i].name \in DOMAIN site_map
          /\ site_map[fabric[i].name] =
                (IF fabric[i].placed = NoCell THEN "UNUSED" ELSE fabric[i].placed)
          /\ fabric[i].placed # NoCell =>
                /\ fabric[i].placed \in DOMAIN pos
                /\ pos[fabric[i].placed] = <<fabric[i].x, fabric[i].y>>
    /\ \A c \in (DOMAIN pos) \cap (DOMAIN logical_db.cells) :
          \E i \in 1..Len(fabric) :
              fabric[i].placed = c /\ pos[c] = <<fabric[i].x, fabric[i].y>>

block_boundary == pc \in {"sa_for", "sa_final"} /\ sa.m = 0

square_built ==
    /\ pc = "cts_built"
    /\ Len(cts.sinks) = Len(SquarePoints)
    /\ Len(cts.resources) = GridSide * GridSide

children_are_leaves(node) == \A i \in 1..Len(node.children) : node.children[i].leaf

\* the shape of the tree, whatever the sizes of its leaves
C15_RootAndQuadrants ==
    square_built =>
        /\ ~cts.clock_tree.leaf
        /\ cts.clock_tree.centroid.sx = (SquareSide \div 2) * cts.clock_tree.centroid.n
        /\ cts.clock_tree.centroid.sy = (SquareSide \div 2) * cts.clock_tree.centroid.n
        /\ Len(cts.clock_tree.children) = 4
        /\ children_are_leaves(cts.clock_tree)

\* C15: eight sinks at the corners and edge midpoints of the square with sixteen
\* free buffers give a root at the centre with four leaf children of two sinks each
C15_SquareTree ==
    /\ C15_RootAndQuadrants
    /\ square_built =>
          \A i \in 1..Len(cts.clock_tree.children) : Len(cts.clock_tree.children[i].sinks) = 2

RECURSIVE tree_nodes(_)
\* all nodes of a tree
tree_nodes(node) ==
    {node} \cup UNION {tree_nodes(node.children[i]) : i \in 1..Len(node.children)}

RECURSIVE virtual_near_root(_, _)
\* no node without a buffer lies below a node with a buffer
virtual_near_root(node, parent_has_buffer) ==
    /\ node.buffer = NoBuffer => ~parent_has_buffer
    /\ \A i \in 1..Len(node.children) :
          virtual_near_root(node.children[i], node.buffer # NoBuffer)

\* the sinks the leaves of a tree list
covered_sinks(tree) ==
    IF tree = NoTree THEN {}
    ELSE UNION {Range(l.sinks) : l \in tree_leaves(tree)}

\* the first CTS run had sinks and fewer free resources than tree nodes
cts_degraded ==
    /\ pc = "cts_updated"
    /\ cts.runs = 0
    /\ cts.sinks # <<>>
    /\ \/ cts.clock_tree = NoTree
       \/ \E n \in tree_nodes(cts.clock_tree) : n.buffer = NoBuffer

\* a leaf without a buffer under a root with one has its sinks on the root's net
virtual_leaves_on_parent_net ==
    (cts_degraded /\ cts.clock_tree # NoTree /\ cts.clock_tree.buffer # NoBuffer) =>
        \A i \in 1..Len(cts.clock_tree.children) :
            LET leaf == cts.clock_tree.children[i]
            IN leaf.buffer = NoBuffer =>
                  \A k \in 1..Len(leaf.sink_logical_names) :
                      \E q \in DOMAIN logical_db.cells[leaf.sink_logical_names[k]].pins :
                          logical_db.cells[leaf.sink_logical_names[k]].pins[q] =
                              logical_db.cells[cts.clock_tree.buffer].pins["Y"]

\* C16: when the tree has more nodes than there are free buffers and inverters
\* (none at all included), the tree covers every sink, the nodes without a
\* buffer are at the root side of the tree, and their sinks are on the parent net
C16_CtsDegradation ==
    cts_degraded =>
        /\ cts.clock_tree # NoTree
        /\ covered_sinks(cts.clock_tree) = {cts.sinks[i].id : i \in 1..Len(cts.sinks)}
        /\ virtual_near_root(cts.clock_tree, FALSE)
        /\ virtual_leaves_on_parent_net

no_cells == pc # "parse" /\ design_json.cells = <<>>

\* initial_placement on a netlist without cells returns the port positions only
C17_GreedyPortsOnly ==
    (no_cells /\ pc = "placed") => DOMAIN placement = Range(all_ports(logical_db))

\* the CTS update on a netlist without cells leaves the logical DB as it was
C17_CtsAddsNothing ==
    (no_cells /\ pc = "cts_updated") =>
        /\ logical_db = cts.db_before
        /\ cts.clock_tree = NoTree

\* simulated_annealing on a netlist without cells returns
C17_AnnealerReturns == no_cells => pc # "sa_raised"

\* the ECO on a netlist without cells adds no cell and no net
C17_EcoAddsNothing ==
    (no_cells /\ pc = "eco_done") =>
        /\ DOMAIN logical_db.cells = DOMAIN eco.db_before.cells
        /\ DOMAIN logical_db.nets = DOMAIN eco.db_before.nets

\* C17: on a netlist without cells every stage returns and changes nothing:
\* the greedy placement holds the ports only, the annealer returns without
\* raising, CTS adds no buffer and no net, the ECO adds no cell and no net
C17_EmptyNetlist ==
    /\ C17_GreedyPortsOnly
    /\ C17_AnnealerReturns
    /\ C17_CtsAddsNothing
    /\ C17_EcoAddsNothing

\* the cap holds when the blocks divide it
C18_CapOnWholeBlocks ==
    (Annealing /\ config.max_iterations % config.moves_per_temp = 0) =>
        sa.iteration <= config.max_iterations

\* C18: the number of proposals of a run of simulated_annealing never exceeds
\* config.max_iterations, whatever moves_per_temp is
C18_HardCap ==
    /\ Annealing => sa.iteration <= config.max_iterations
    /\ \A i \in 1..Len(runs) : runs[i].iterations <= config.max_iterations

\* the exit code the driver is to give for a list of results
expected_exit(results, strict) ==
    IF \E k \in 1..Len(results) : ~results[k].ok /\ ~results[k].skipped /\
                                  (~results[k].missing_input \/ strict)
    THEN 1 ELSE 0

\* the stages the options leave to run
selected(k) ==
    /\ viz.only # {} => STAGES[k].name \in viz.only
    /\ viz.skip # {} => STAGES[k].name \notin viz.skip

\* the driver as stated, when the fabric files load
C19_ExitCodeWithFabric ==
    (pc = "viz_exit" /\ viz.fabric_files) =>
        /\ Len(viz.results) = Len(STAGES)
        /\ viz.exit = expected_exit(viz.results, viz.strict)
        /\ \A k \in 1..Len(STAGES) : viz.results[k].skipped <=> ~selected(k)

\* C19: when the driver exits, every stage has a result (a failure stops no
\* later stage), the stages left out by --only / --skip are the skipped ones,
\* and the exit code is 1 exactly for a hard error, or for a missing input
\* under --strict
C19_VizExitCode ==
    pc = "viz_exit" =>
        /\ Len(viz.results) = Len(STAGES)
        /\ viz.exit = expected_exit(viz.results, viz.strict)
        /\ \A k \in 1..Len(STAGES) : viz.results[k].skipped <=> ~selected(k)

\* the DIEAREA corner is the die size in database units
C20_DieAreaScaled ==
    pc = "def_written" =>
        /\ def_out.file.diearea.urx = to_dbu(def_out.die.width_um, def_out.dbu_per_micron)
        /\ def_out.file.diearea.ury = to_dbu(def_out.die.height_um, def_out.dbu_per_micron)

\* the FIXED point of every pin is the fabric position in database units
C20_PinsScaled ==
    pc = "def_written" =>
        \A k \in 1..Len(def_out.file.pins) :
            LET info == pin_info(def_out.pin_list, def_out.file.pins[k].name)
            IN /\ def_out.file.pins[k].x = to_dbu(info.x_um, def_out.dbu_per_micron)
               /\ def_out.file.pins[k].y = to_dbu(info.y_um, def_out.dbu_per_micron)

\* C20: in the DEF file written, every pin position and the DIEAREA corner are
\* int(value_um * dbu_per_micron) of the fabric value, nothing is halved
C20_DefNotHalved ==
    /\ C20_DieAreaScaled
    /\ C20_PinsScaled

\* the loop condition of line 380 is about to be tested, or was just tested true
at_loop_test == pc = "sa_for" /\ sa.m = 0

\* C21: with 0 < cooling_rate < 1, moves_per_temp >= 1 and a finite
\* max_iterations the schedule loop of simulated_annealing is left in the end,
\* reheat or not, and it is left exactly when its test finds T <= final_temp or
\* iteration >= max_iterations: a block is entered only with T > final_temp and
\* iteration < max_iterations, and the loop is left only otherwise.
C21_Termination ==
    /\ [](at_loop_test => /\ sa.temperature > config.final_temp
                          /\ sa.iteration < config.max_iterations)
    /\ [](pc = "sa_final" => \/ sa.temperature <= config.final_temp
                             \/ sa.iteration >= config.max_iterations)
    /\ (pc = "sa_start") ~> (pc = "sa_final")

\* the loop was left by the cap, hot, after a reheat had raised the temperature
C21_Witness ==
    /\ pc = "sa_final"
    /\ sa.reheated
    /\ sa.temperature > config.final_temp
    /\ sa.iteration >= config.max_iterations

\* the step that ends a temperature block (lines 434-459)
end_block_step ==
    pc = "sa_for" /\ sa.m = config.moves_per_temp /\ sa'.blocks = sa.blocks + 1

\* the step took the reheat branch: the counter is back at 0 although best_cost
\* did not improve in the block
reheat_step ==
    end_block_step /\ ~(sa.best_cost < sa.last_best_cost) /\ sa'.no_improvement_count = 0

\* the blocks in a row, this one included, at whose end current_cost exceeded
\* 1.5 * best_cost while best_cost did not improve
degraded_run ==
    IF ~(sa.best_cost < sa.last_best_cost) /\ degraded(sa.current_cost, sa.best_cost)
    THEN sa.degraded_blocks + 1 ELSE 0

\* the reheat as the code decides it: the cost is degraded at the end of this
\* block and best_cost did not improve for more than 20 blocks
C22_ReheatByCounter ==
    [][end_block_step =>
        (reheat_step <=> /\ degraded(sa.current_cost, sa.best_cost)
                         /\ ~(sa.best_cost < sa.last_best_cost)
                         /\ sa.no_improvement_count + 1 > ReheatPatience)]_vars

\* what the reheat does to placement, cost and counter, and the temperature
\* the next block runs at: the reheated one, cooled once
C22_ReheatThenCool ==
    [][reheat_step =>
        /\ sa'.current_placement = sa.best_placement
        /\ sa'.current_cost = sa.best_cost
        /\ sa'.no_improvement_count = 0
        /\ sa'.temperature =
              (Min2(sa.temperature * ReheatFactor, config.initial_temp \div 2)
                  * config.cooling_num) \div config.cooling_den]_vars

placed_count(c) == Cardinality(neighbors(netlist_graph, c) \cap DOMAIN placement)

\* an iteration of the while loop of stage 3 that placed a cell
grow_step ==
    /\ pc = "seed" /\ pc' = "seed"
    /\ seed_cells = <<>>
    /\ remaining_cells' # remaining_cells

\* the cell the iteration placed
grown_cell == CHOOSE c \in remaining_cells : c \notin remaining_cells'

\* the cell placed next has the largest number of placed neighbours
C23_MostConnected ==
    [][grow_step => \A d \in remaining_cells : placed_count(grown_cell) >= placed_count(d)]_vars

\* among the cells with a placed neighbour that tie on the count, the one
\* whose name sorts last is placed
C23_TieByGreatestName ==
    [][grow_step /\ placed_count(grown_cell) > 0 =>
         \A d \in remaining_cells :
            placed_count(d) = placed_count(grown_cell) =>
               NameRank(SortedNames, grown_cell) >= NameRank(SortedNames, d)]_vars

\* C23: the cell the grow stage places next is an unplaced cell with the
\* largest number of already-placed neighbours, and of the cells that tie on
\* that number it is the one with the lowest instance id.
C23_GrowOrder ==
    [][grow_step =>
         \A d \in remaining_cells :
            \/ placed_count(grown_cell) > placed_count(d)
            \/ /\ placed_count(grown_cell) = placed_count(d)
               /\ NameRank(SortedNames, grown_cell) <= NameRank(SortedNames, d)]_vars

\* the cells the ECO added to the DB and tied, the tie cells left out
tied_cells ==
    {c \in (DOMAIN logical_db.cells) \ (DOMAIN eco.db_before.cells) :
        logical_db.cells[c].type # CONB}

\* the tie state of the net pin p of the tied cell c is on: HI on the tie_hi
\* net of the tile of c, LO on its tie_lo net, none otherwise
tie_of(c, p) ==
    LET tile == site_named(sites, c).tile
        name == logical_db.nets[logical_db.cells[c].pins[p]].name
    IN IF name = "tie_hi_" \o tile THEN "HI"
       ELSE IF name = "tie_lo_" \o tile THEN "LO" ELSE "none"

\* P holds of every input pin the first ECO run tied: the type of the cell,
\* the pin, and the tie state of its net
every_tied_pin(P(_, _, _)) ==
    (pc = "eco_done" /\ eco.runs = 1) =>
        \A c \in tied_cells :
           \A p \in Range(get_cell_input_pins(logical_db.cells[c].type)) :
              /\ p \in DOMAIN logical_db.cells[c].pins
              /\ P(logical_db.cells[c].type, p, tie_of(c, p))

\* the leakage DB has a per-pin entry for pin p of type t
has_pin_entry(t, p) ==
    t \in DOMAIN eco.leakage_db /\ p \in DOMAIN input_ties_of(eco.leakage_db[t])

\* the leakage DB has a cell-level summary HI or LO for type t
has_summary(t) ==
    /\ t \in DOMAIN eco.leakage_db
    /\ "optimal_tie" \in DOMAIN eco.leakage_db[t]
    /\ eco.leakage_db[t].optimal_tie \in {"HI", "LO"}

\* a pin with a per-pin entry is tied as the entry says
C24_PerPinEntry ==
    every_tied_pin(LAMBDA t, p, tie :
        has_pin_entry(t, p) => tie = eco.leakage_db[t].input_ties[p])

\* a pin without an entry, of a type that has per-pin entries, is tied LO
C24_MissingPinLow ==
    every_tied_pin(LAMBDA t, p, tie :
        (~has_pin_entry(t, p) /\ t \in DOMAIN eco.leakage_db
            /\ DOMAIN input_ties_of(eco.leakage_db[t]) # {}) => tie = "LO")

\* C24: every input pin the ECO ties is on the tie_hi or the tie_lo net of its
\* tile: as the per-pin entry of the leakage DB says when there is one, and as
\* the cell-level summary says when the type has leakage data but no entry for
\* the pin.
C24_PerPinThenSummary ==
    every_tied_pin(LAMBDA t, p, tie :
        /\ tie \in {"HI", "LO"}
        /\ has_pin_entry(t, p) => tie = eco.leakage_db[t].input_ties[p]
        /\ (~has_pin_entry(t, p) /\ has_summary(t)) => tie = eco.leakage_db[t].optimal_tie)

\* cell type names of the gate families the heuristic tells apart
GateNames ==
    {"sky130_fd_sc_hd__and2_1", "sky130_fd_sc_hd__nand2_2", "sky130_fd_sc_hd__or2_1",
     "sky130_fd_sc_hd__nor2_1", "sky130_fd_sc_hd__xor2_1", "sky130_fd_sc_hd__xnor2_1",
     "sky130_fd_sc_hd__buf_1", "sky130_fd_sc_hd__inv_1", "sky130_fd_sc_hd__o21ai_1",
     "sky130_fd_sc_hd__fill_1"}

\* the first ECO run tied a cell whose type the leakage DB does not hold
tied_without_data ==
    /\ pc = "eco_done" /\ eco.runs = 1
    /\ \E c \in tied_cells : logical_db.cells[c].type \notin DOMAIN eco.leakage_db

\* a type the leakage DB does not hold is tied as the heuristic says for its name
C25_TiedAsHeuristic ==
    every_tied_pin(LAMBDA t, p, tie :
        t \notin DOMAIN eco.leakage_db => tie = heuristic_tie_selection(t))

\* the heuristic by family: HI for the names holding and2 (AND and NAND gates),
\* LO for all others
C25_HeuristicFamilies ==
    tied_without_data =>
        \A t \in GateNames : heuristic_tie_selection(t) = (IF has(t, "and2") THEN "HI" ELSE "LO")

\* C25: for a cell type without leakage data the name-based heuristic yields LO
\* for every gate family, so every input of such an unused cell that the ECO
\* ties is on the tie_lo net of its tile.
C25_HeuristicAllLow ==
    /\ tied_without_data => \A t \in GateNames : heuristic_tie_selection(t) = "LO"
    /\ every_tied_pin(LAMBDA t, p, tie : t \notin DOMAIN eco.leakage_db => tie = "LO")

RECURSIVE claim_order(_)
\* the buffers of a tree in the order build_htree_recursive claimed them: the
\* buffer of a node, then those of its children, quadrant by quadrant
claim_order(node) ==
    LET RECURSIVE below(_)
        below(k) == IF k > Len(node.children) THEN <<>>
                    ELSE claim_order(node.children[k]) \o below(k + 1)
    IN (IF node.buffer = NoBuffer THEN <<>> ELSE <<node.buffer>>) \o below(1)

\* the claims of the tree just built
claims == IF cts.clock_tree = NoTree THEN <<>> ELSE claim_order(cts.clock_tree)

\* the names of the resources claimed / of the buffer resources
claimed_names(resources) == {resources[i].name : i \in {k \in 1..Len(resources) : resources[k].claimed}}

buffer_names(resources) == {resources[i].name : i \in {k \in 1..Len(resources) : resources[k].is_buffer}}

\* a tree has been built and not yet written into the DB
tree_built == pc = "cts_built" /\ cts.clock_tree # NoTree

\* build_htree_recursive only adds to the claimed resources, and what it adds
\* are the buffers of the tree nodes
pool_grows ==
    (pc = "cts_found" /\ pc' = "cts_built") =>
         /\ Len(cts'.resources) = Len(cts.resources)
         /\ \A i \in 1..Len(cts.resources) :
               /\ cts'.resources[i] = [cts.resources[i] EXCEPT !.claimed = cts'.resources[i].claimed]
               /\ cts.resources[i].claimed => cts'.resources[i].claimed
         /\ claimed_names(cts'.resources) =
               claimed_names(cts.resources) \cup
               (IF cts'.clock_tree = NoTree THEN {} ELSE Range(claim_order(cts'.clock_tree)))

\* no two tree nodes hold the same site, no placed instance occupies a site a
\* node holds, and an inverter is claimed only after every buffer of the pool
tree_claims ==
    tree_built =>
        /\ \A i, j \in 1..Len(claims) : claims[i] = claims[j] => i = j
        /\ \A i \in 1..Len(claims) :
              /\ claims[i] \in site_names(sites)
              /\ site_named(sites, claims[i]).placed = NoCell
              /\ \A c \in DOMAIN placement : placement[c].slot # claims[i]
              /\ claims[i] \notin buffer_names(cts.resources) =>
                    buffer_names(cts.resources) \subseteq {claims[k] : k \in 1..(i - 1)}

\* C26: during build_htree_recursive the set of claimed resources only grows;
\* every tree node with a buffer holds a site that no other tree node holds and
\* that no placed instance occupies; an inverter site is claimed only when no
\* unclaimed buffer site remains.
C26_ResourcePool == [][pool_grows]_vars /\ []tree_claims

\* a tree of several buffered nodes built on a fabric where a placed instance
\* holds a buffer site and the last claim is the inverter
C26_Witness ==
    /\ tree_built
    /\ Len(claims) >= 2
    /\ claims[Len(claims)] \notin buffer_names(cts.resources)
    /\ \E i \in 1..Len(sites) : is_buffer(sites[i].cell_type) /\ sites[i].placed # NoCell
    /\ \E n \in tree_nodes(cts.clock_tree) : n.buffer = NoBuffer

\* the pairs of nodes that are endpoints of a common net of the DB
clique_pairs(db) == DOMAIN build_netlist_graph(db).edges

\* the root buffer of the tree just written into the DB, NoBuffer without one
root_buffer == IF cts.clock_tree = NoTree THEN NoBuffer ELSE cts.clock_tree.buffer

\* after the CTS update every edge of the graph joins two endpoints of a common
\* net of the updated DB
C27_EdgesJoinNetEndpoints ==
    CtsUpdated => DOMAIN netlist_graph.edges \subseteq clique_pairs(logical_db)

\* after the CTS update the endpoints that were added to a net together (the
\* output of a buffer and the pins it drives) are adjacent
C27_NewPairsAdjacent ==
    CtsUpdated =>
        \A n \in (DOMAIN logical_db.nets) \ (DOMAIN cts.db_before.nets) :
           \A u, v \in {c[1] : c \in Range(logical_db.nets[n].connections)} :
              u # v => {u, v} \in DOMAIN netlist_graph.edges

\* C27: after update_logical_db_and_graph two nodes are adjacent in the netlist
\* graph if and only if both are endpoints of a common net of the updated
\* logical DB, the clock port and the root buffer included.
C27_GraphIsCliqueOfNets ==
    CtsUpdated =>
        /\ DOMAIN netlist_graph.edges = clique_pairs(logical_db)
        /\ root_buffer # NoBuffer => {cts.clock_net, root_buffer} \in DOMAIN netlist_graph.edges

\* the annealer is between its first statement and its return
annealing_state == pc \in {"sa_for", "sa_final"}

\* a step of the inner loop whose proposal was rejected and reverted, or skipped
proposal_undone ==
    /\ pc = "sa_for" /\ sa'.m = sa.m + 1
    /\ sa'.last_move \in {"rejected", "skipped"}

\* current_cost and best_cost are the wire lengths of the two placements
costs_match ==
    annealing_state =>
        /\ sa.current_cost = calculate_hpwl(sa.current_placement, logical_db)
        /\ sa.best_cost = calculate_hpwl(sa.best_placement, logical_db)

\* C28: after every proposal (accepted, rejected and reverted, or skipped) and
\* after every reheat, current_cost is the HPWL of current_placement and
\* best_cost the HPWL of best_placement; a rejected proposal leaves
\* current_placement exactly as it was before the proposal.
C28_CostBookkeeping ==
    /\ []costs_match
    /\ [][proposal_undone => /\ sa'.current_placement = sa.current_placement
                             /\ sa'.current_cost = sa.current_cost]_vars

\* after a reheat, a proposal is rejected while the current placement is worse
\* than the best one
C28_Witness ==
    /\ pc = "sa_for" /\ sa.reheated /\ sa.last_move = "rejected"
    /\ sa.current_cost > sa.best_cost
    /\ sa.current_placement # sa.best_placement

\* simulated_annealing has returned its best placement
annealer_returned == pc = "sa_done" /\ sa.best_placement = runs[Len(runs)].best_placement

\* without a reheat the fabric holds the current placement at the return, so it
\* holds the returned one when the two are equal
C29_FabricHoldsCurrent ==
    (annealer_returned /\ ~sa.reheated) =>
        /\ maps_consistent(sites, fabric_to_logical_map, sa.current_placement)
        /\ maps_consistent(sites, build_complete_fabric_map(sites), sa.current_placement)

design_cells == {design_json.cells[i].name : i \in 1..Len(design_json.cells)}

\* a run of run_power_down_eco
eco_step == pc \in {"cts_written", "eco_done"} /\ pc' = "eco_done"

\* the cells the clock tree synthesis added: in the DB handed to the first ECO
\* run and not of the design
cts_buffers(db_before) == (DOMAIN db_before.cells) \ design_cells

\* the names of the cells a run lists as unused, and of the tie cells it claims
unused_names(e) ==
    UNION {{e.unused_by_tile.cells[t][i].name : i \in 1..Len(e.unused_by_tile.cells[t])} :
             t \in DOMAIN e.unused_by_tile.cells}

tie_names(e) == {e.tie_cells.cell[t] : t \in DOMAIN e.tie_cells.cell}

\* C30: in the CTS then ECO flow no site CTS claimed as a clock buffer is an
\* unused candidate or a tie cell of the ECO, no CONB site the ECO claims is
\* used by a placed instance or already in the logical DB, and every CTS buffer
\* has the same pins after the ECO as before.
C30_SiteSeparation ==
    [][eco_step =>
         /\ \A b \in cts_buffers(eco'.db_before) :
               /\ b \notin unused_names(eco')
               /\ b \notin tie_names(eco')
               /\ b \in DOMAIN logical_db'.cells
               /\ logical_db'.cells[b] = eco'.db_before.cells[b]
         /\ \A k \in tie_names(eco') :
               /\ k \notin DOMAIN logical_db.cells
               /\ site_named(sites, k).placed = NoCell
               /\ \A c \in DOMAIN placement : placement[c].slot # k]_vars

\* the first ECO run after a CTS that claimed buffers, on a fabric where the
\* design holds a conb site: it claims another conb and ties an unused buffer
\* or inverter site
C30_Witness ==
    /\ pc = "eco_done" /\ eco.runs = 1
    /\ \E b \in cts_buffers(eco.db_before) : {"A", "Y"} \subseteq DOMAIN logical_db.cells[b].pins
    /\ tie_names(eco) # {}
    /\ \E i \in 1..Len(sites) : has(sites[i].cell_type, "conb_1") /\ sites[i].placed # NoCell
    /\ \E n \in unused_names(eco) :
          is_buffer(site_named(sites, n).cell_type) \/ is_inverter(site_named(sites, n).cell_type)

====
